---------------------------- MODULE Spec2Model ----------------------------
(***************************************************************************)
(* A model of terminal-mcp: a pseudo-terminal session driven over a        *)
(* line-delimited JSON-RPC protocol.                                       *)
(*                                                                         *)
(* Strings are sequences of Unicode code points (integers); byte strings   *)
(* are sequences of integers 0..255.  A literal is followed by a comment   *)
(* giving its text.                                                        *)
(***************************************************************************)
EXTENDS Integers, Sequences, FiniteSets, TLC

(***************************************************************************)
(* Bounds of the model.                                                    *)
(***************************************************************************)
\* longest key name drawn as an input of key_to_sequence
MaxKeyLen == 3
\* the size of the terminal (the configured rows and columns)
ScreenRows == 2
ScreenCols == 2
\* the number of lines the client writes to the input stream
MaxLines == 2
\* the number of chunks of output the shell produces
MaxChunks == 1
\* the longest short write of the PTY's sink (a write that accepts fewer
\* bytes than it was given)
MaxShort == 1
\* SpecDispatch: the number of requests the transport sends
MaxRequests == 3
\* SpecResize: the largest number of columns or rows asked for
MaxDim == 3
\* SpecClean: the longest text given to clean_output
MaxTextLen == 5
\* SpecReader: the bytes the shell writes, the most one read returns, and
\* the number of engine calls
MaxBytes == 3
MaxChunkLen == 2
MaxQueries == 2
\* SpecChannels: the number of requests the client writes
MaxBurst == 67
\* SpecDrain: the number of chunks that wait in the output channel at once
MaxQueued == 9
\* SpecShot: the width of the grids a screenshot is taken of
ShotCols == 3
\* u16::MAX
U16Max == 65535

\* u8::MAX: a palette index and the parts of an RGB colour are u8
U8Max == 255

(***************************************************************************)
(* Strings.                                                                *)
(***************************************************************************)
\* all sequences over S of length 0..n
SeqsUpTo(S, n) == UNION {[1..k -> S] : k \in 0..n}

\* str::starts_with
starts_with(s, p) == Len(s) >= Len(p) /\ SubSeq(s, 1, Len(p)) = p

\* the string with its first n characters removed (str::strip_prefix after a match)
DropPrefix(s, n) == SubSeq(s, n + 1, Len(s))

\* char::to_lowercase over ASCII and Latin-1: 'A'..'Z' and U+00C0..U+00DE
\* (but U+00D7, the multiplication sign) move 32 code points up
LowerChar(c) ==
    IF (c >= 65 /\ c <= 90) \/ (c >= 192 /\ c <= 222 /\ c # 215) THEN c + 32 ELSE c

\* str::to_lowercase
to_lowercase(s) == [i \in 1..Len(s) |-> LowerChar(s[i])]

\* the UTF-8 encoding of one code point (up to U+FFFF)
Utf8Char(c) ==
    IF c < 128 THEN <<c>>
    ELSE IF c < 2048 THEN <<192 + (c \div 64), 128 + (c % 64)>>
    ELSE <<224 + (c \div 4096), 128 + ((c \div 64) % 64), 128 + (c % 64)>>

RECURSIVE as_bytes(_)
\* str::as_bytes: the UTF-8 bytes of a string
as_bytes(s) == IF s = <<>> THEN <<>> ELSE Utf8Char(Head(s)) \o as_bytes(Tail(s))

(***************************************************************************)
(* utils/keys.rs: the Key Encoder.                                         *)
(***************************************************************************)
ESC == 27

\* the arms of the match that name keys: the (lowercase) names of an arm and
\* the sequence it yields
NamedKeys ==
    { [names |-> {<<101, 110, 116, 101, 114>>,          \* "enter"
                  <<114, 101, 116, 117, 114, 110>>},    \* "return"
       seq |-> <<13>>],                                 \* "\r"
      [names |-> {<<116, 97, 98>>},                     \* "tab"
       seq |-> <<9>>],                                  \* "\t"
      [names |-> {<<101, 115, 99, 97, 112, 101>>,       \* "escape"
                  <<101, 115, 99>>},                    \* "esc"
       seq |-> <<ESC>>],
      [names |-> {<<98, 97, 99, 107, 115, 112, 97, 99, 101>>},  \* "backspace"
       seq |-> <<127>>],                                \* "\x7f"
      [names |-> {<<100, 101, 108, 101, 116, 101>>,     \* "delete"
                  <<100, 101, 108>>},                   \* "del"
       seq |-> <<ESC, 91, 51, 126>>],                   \* "\x1b[3~"
      [names |-> {<<115, 112, 97, 99, 101>>},           \* "space"
       seq |-> <<32>>],                                 \* " "
      [names |-> {<<117, 112>>,                         \* "up"
                  <<97, 114, 114, 111, 119, 117, 112>>},            \* "arrowup"
       seq |-> <<ESC, 91, 65>>],                        \* "\x1b[A"
      [names |-> {<<100, 111, 119, 110>>,               \* "down"
                  <<97, 114, 114, 111, 119, 100, 111, 119, 110>>},  \* "arrowdown"
       seq |-> <<ESC, 91, 66>>],                        \* "\x1b[B"
      [names |-> {<<114, 105, 103, 104, 116>>,          \* "right"
                  <<97, 114, 114, 111, 119, 114, 105, 103, 104, 116>>},  \* "arrowright"
       seq |-> <<ESC, 91, 67>>],                        \* "\x1b[C"
      [names |-> {<<108, 101, 102, 116>>,               \* "left"
                  <<97, 114, 114, 111, 119, 108, 101, 102, 116>>},  \* "arrowleft"
       seq |-> <<ESC, 91, 68>>],                        \* "\x1b[D"
      [names |-> {<<104, 111, 109, 101>>},              \* "home"
       seq |-> <<ESC, 91, 72>>],                        \* "\x1b[H"
      [names |-> {<<101, 110, 100>>},                   \* "end"
       seq |-> <<ESC, 91, 70>>],                        \* "\x1b[F"
      [names |-> {<<112, 97, 103, 101, 117, 112>>,      \* "pageup"
                  <<112, 103, 117, 112>>},              \* "pgup"
       seq |-> <<ESC, 91, 53, 126>>],                   \* "\x1b[5~"
      [names |-> {<<112, 97, 103, 101, 100, 111, 119, 110>>,  \* "pagedown"
                  <<112, 103, 100, 110>>},              \* "pgdn"
       seq |-> <<ESC, 91, 54, 126>>],                   \* "\x1b[6~"
      [names |-> {<<105, 110, 115, 101, 114, 116>>,     \* "insert"
                  <<105, 110, 115>>},                   \* "ins"
       seq |-> <<ESC, 91, 50, 126>>],                   \* "\x1b[2~"
      [names |-> {<<102, 49>>}, seq |-> <<ESC, 79, 80>>],           \* "f1"  "\x1bOP"
      [names |-> {<<102, 50>>}, seq |-> <<ESC, 79, 81>>],           \* "f2"  "\x1bOQ"
      [names |-> {<<102, 51>>}, seq |-> <<ESC, 79, 82>>],           \* "f3"  "\x1bOR"
      [names |-> {<<102, 52>>}, seq |-> <<ESC, 79, 83>>],           \* "f4"  "\x1bOS"
      [names |-> {<<102, 53>>}, seq |-> <<ESC, 91, 49, 53, 126>>],  \* "f5"  "\x1b[15~"
      [names |-> {<<102, 54>>}, seq |-> <<ESC, 91, 49, 55, 126>>],  \* "f6"  "\x1b[17~"
      [names |-> {<<102, 55>>}, seq |-> <<ESC, 91, 49, 56, 126>>],  \* "f7"  "\x1b[18~"
      [names |-> {<<102, 56>>}, seq |-> <<ESC, 91, 49, 57, 126>>],  \* "f8"  "\x1b[19~"
      [names |-> {<<102, 57>>}, seq |-> <<ESC, 91, 50, 48, 126>>],  \* "f9"  "\x1b[20~"
      [names |-> {<<102, 49, 48>>}, seq |-> <<ESC, 91, 50, 49, 126>>],  \* "f10" "\x1b[21~"
      [names |-> {<<102, 49, 49>>}, seq |-> <<ESC, 91, 50, 51, 126>>],  \* "f11" "\x1b[23~"
      [names |-> {<<102, 49, 50>>}, seq |-> <<ESC, 91, 50, 52, 126>>]   \* "f12" "\x1b[24~"
    }

CtrlPlus == <<99, 116, 114, 108, 43>>     \* "ctrl+"
CtrlMinus == <<99, 116, 114, 108, 45>>    \* "ctrl-"
CMinus == <<99, 45>>                      \* "c-"

\* a plausible slip: the letters are counted from 0
CtrlLetterKeys_from_zero ==
    { [names |-> {CtrlPlus \o <<l>>, CtrlMinus \o <<l>>, CMinus \o <<l>>},
       seq |-> <<l - 97>>] : l \in 97..122 }

\* "ctrl+a" | "ctrl-a" | "c-a" => "\x01" ... "ctrl+z" | "ctrl-z" | "c-z" => "\x1a"
CtrlLetterKeys ==
    { [names |-> {CtrlPlus \o <<l>>, CtrlMinus \o <<l>>, CMinus \o <<l>>},
       seq |-> <<l - 96>>] : l \in 97..122 }

\* "ctrl+[" | "ctrl-[" => "\x1b", then \ ] ^ _ => "\x1c" "\x1d" "\x1e" "\x1f"
CtrlPunctKeys ==
    { [names |-> {CtrlPlus \o <<p>>, CtrlMinus \o <<p>>}, seq |-> <<p - 64>>] :
        p \in 91..95 }

KeyTable == NamedKeys \cup CtrlLetterKeys \cup CtrlPunctKeys

AltPlus == <<97, 108, 116, 43>>     \* "alt+"
AltMinus == <<97, 108, 116, 45>>    \* "alt-"
MMinus == <<109, 45>>               \* "m-"

\* the guard of the alt/meta arm
IsAltKey(k) == starts_with(k, AltPlus) \/ starts_with(k, AltMinus) \/ starts_with(k, MMinus)

\* strip_prefix("alt+").or_else(strip_prefix("alt-")).or_else(strip_prefix("m-"))
AltCharPart(k) ==
    IF starts_with(k, AltPlus) THEN DropPrefix(k, Len(AltPlus))
    ELSE IF starts_with(k, AltMinus) THEN DropPrefix(k, Len(AltMinus))
    ELSE DropPrefix(k, Len(MMinus))

\* whether the lowercased key matches an arm of the table (the last arm,
\* `other`, is the passthrough)
InKeyTable(k) == (\E e \in KeyTable : k \in e.names) \/ IsAltKey(k)

\* a plausible slip: the match is on the key as written
key_to_sequence_cased(key) ==
    IF \E e \in KeyTable : key \in e.names
    THEN (CHOOSE e \in KeyTable : key \in e.names).seq
    ELSE IF IsAltKey(key) THEN <<ESC>> \o AltCharPart(key)
    ELSE key

\* key_to_sequence: the match is on key.to_lowercase(), and the arms that
\* bind a variable (alt/meta, other) bind the lowercased string
key_to_sequence(key) ==
    LET k == to_lowercase(key) IN
    IF \E e \in KeyTable : k \in e.names
    THEN (CHOOSE e \in KeyTable : k \in e.names).seq
    ELSE IF IsAltKey(k) THEN <<ESC>> \o AltCharPart(k)
    ELSE k

(***************************************************************************)
(* Option<T>: None is the empty sequence, Some(x) the one-element one.     *)
(***************************************************************************)
None == <<>>
Some(x) == <<x>>

(***************************************************************************)
(* The Screen Model (crate vt100) as the engine reads it: a grid of cells. *)
(* A cell has its contents (no character when empty, one character, or a   *)
(* character followed by combining characters), two colours and four       *)
(* flags.  Cells are narrow and rows are not soft-wrapped.                 *)
(***************************************************************************)
ColorDefault == [t |-> "Default", v |-> <<>>]
ColorIdx(i) == [t |-> "Idx", v |-> <<i>>]
ColorRgb(r, g, b) == [t |-> "Rgb", v |-> <<r, g, b>>]

Cell(contents, fg, bg, bold, italic, underline, inverse) ==
    [contents |-> contents, fgcolor |-> fg, bgcolor |-> bg, bold |-> bold,
     italic |-> italic, underline |-> underline, inverse |-> inverse]

EmptyCell == Cell(<<>>, ColorDefault, ColorDefault, FALSE, FALSE, FALSE, FALSE)

\* vt100::Cell::has_contents
has_contents(cell) == cell.contents # <<>>

RECURSIVE Dec(_)
\* format!("{}", n) of an unsigned integer
Dec(n) == IF n < 10 THEN <<48 + n>> ELSE Dec(n \div 10) \o <<48 + (n % 10)>>

RECURSIVE Repeat(_, _)
\* str::repeat
Repeat(s, n) == IF n = 0 THEN <<>> ELSE s \o Repeat(s, n - 1)

RECURSIVE join(_, _)
\* [String]::join(sep)
join(strs, sep) ==
    IF strs = <<>> THEN <<>>
    ELSE IF Len(strs) = 1 THEN strs[1]
    ELSE strs[1] \o sep \o join(Tail(strs), sep)

\* cells_same_style: the style of two cells, content excluded
cells_same_style(a, b) ==
    /\ a.fgcolor = b.fgcolor
    /\ a.bgcolor = b.bgcolor
    /\ a.bold = b.bold
    /\ a.italic = b.italic
    /\ a.underline = b.underline
    /\ a.inverse = b.inverse

\* a plausible slip: a bright colour is encoded without the `- 8`
color_codes_bright_from_idx(color, base, bright, ext) ==
    IF color.t = "Default" THEN <<>>
    ELSE IF color.t = "Idx" THEN
        LET idx == color.v[1] IN
        IF idx < 8 THEN <<Dec((base + idx) % 256)>>
        ELSE IF idx < 16 THEN <<Dec((bright + idx) % 256)>>
        ELSE << ext \o <<59, 53, 59>> \o Dec(idx) >>
    ELSE << ext \o <<59, 50, 59>> \o Dec(color.v[1]) \o <<59>>
              \o Dec(color.v[2]) \o <<59>> \o Dec(color.v[3]) >>

\* the codes of a colour: base is 30 (foreground) or 40 (background), bright
\* is 90 or 100, ext is "38" or "48"; idx is a u8
color_codes(color, base, bright, ext) ==
    IF color.t = "Default" THEN <<>>
    ELSE IF color.t = "Idx" THEN
        LET idx == color.v[1] IN
        IF idx < 8 THEN <<Dec((base + idx) % 256)>>
        ELSE IF idx < 16 THEN <<Dec((((bright + idx) % 256) - 8) % 256)>>
        ELSE << ext \o <<59, 53, 59>> \o Dec(idx) >>                  \* ";5;"
    ELSE << ext \o <<59, 50, 59>> \o Dec(color.v[1]) \o <<59>>        \* ";2;"
              \o Dec(color.v[2]) \o <<59>> \o Dec(color.v[3]) >>

\* a plausible slip: the SGR sequence is left without its final 'm'
cell_to_ansi_unterminated(cell) ==
    LET codes ==
            (IF cell.bold THEN << <<49>> >> ELSE <<>>)
            \o (IF cell.italic THEN << <<51>> >> ELSE <<>>)
            \o (IF cell.underline THEN << <<52>> >> ELSE <<>>)
            \o (IF cell.inverse THEN << <<55>> >> ELSE <<>>)
            \o color_codes(cell.fgcolor, 30, 90, <<51, 56>>)
            \o color_codes(cell.bgcolor, 40, 100, <<52, 56>>)
    IN  IF codes = <<>> THEN <<>> ELSE <<ESC, 91>> \o join(codes, <<59>>)

\* cell_to_ansi: "\x1b[" codes joined by ";" then "m"; nothing for the
\* default style
cell_to_ansi(cell) ==
    LET codes ==
            (IF cell.bold THEN << <<49>> >> ELSE <<>>)          \* "1"
            \o (IF cell.italic THEN << <<51>> >> ELSE <<>>)     \* "3"
            \o (IF cell.underline THEN << <<52>> >> ELSE <<>>)  \* "4"
            \o (IF cell.inverse THEN << <<55>> >> ELSE <<>>)    \* "7"
            \o color_codes(cell.fgcolor, 30, 90, <<51, 56>>)    \* "38"
            \o color_codes(cell.bgcolor, 40, 100, <<52, 56>>)   \* "48"
    IN  IF codes = <<>> THEN <<>> ELSE <<ESC, 91>> \o join(codes, <<59>>) \o <<109>>

SgrReset == <<ESC, 91, 48, 109>>    \* "\x1b[0m"

\* cell.contents().chars().next().unwrap_or(' ')
cell_char(cell) == IF cell.contents = <<>> THEN 32 ELSE cell.contents[1]

RECURSIVE screenshot_cols_keeping_first(_, _, _)
\* a plausible slip: the accumulator keeps the first style emitted in the row
screenshot_cols_keeping_first(cells, col, current_attrs) ==
    IF col > Len(cells) THEN <<>>
    ELSE
        LET cell == cells[col]
            emit == current_attrs = None \/ ~cells_same_style(current_attrs[1], cell)
        IN  (IF emit THEN SgrReset \o cell_to_ansi(cell) ELSE <<>>)
            \o <<cell_char(cell)>>
            \o screenshot_cols_keeping_first(cells, col + 1,
                    IF current_attrs = None THEN Some(cell) ELSE current_attrs)

RECURSIVE screenshot_cols_without_reset(_, _, _)
\* a plausible slip: a new style is emitted without the reset before it
screenshot_cols_without_reset(cells, col, current_attrs) ==
    IF col > Len(cells) THEN <<>>
    ELSE
        LET cell == cells[col]
            emit == current_attrs = None \/ ~cells_same_style(current_attrs[1], cell)
        IN  (IF emit THEN cell_to_ansi(cell) ELSE <<>>)
            \o <<cell_char(cell)>>
            \o screenshot_cols_without_reset(cells, col + 1,
                    IF emit THEN Some(cell) ELSE current_attrs)

RECURSIVE screenshot_cols(_, _, _)
\* the inner loop of take_screenshot from column col (1-based) on;
\* current_attrs is the Option<Cell> of the last style emitted
screenshot_cols(cells, col, current_attrs) ==
    IF col > Len(cells) THEN <<>>
    ELSE
        LET cell == cells[col]
            emit == current_attrs = None \/ ~cells_same_style(current_attrs[1], cell)
        IN  (IF emit THEN SgrReset \o cell_to_ansi(cell) ELSE <<>>)
            \o <<cell_char(cell)>>
            \o screenshot_cols(cells, col + 1, IF emit THEN Some(cell) ELSE current_attrs)

RECURSIVE screenshot_rows(_, _)
\* the outer loop of take_screenshot from row `row` (1-based) on
screenshot_rows(grid, row) ==
    IF row > Len(grid) THEN <<>>
    ELSE screenshot_cols(grid[row], 1, None) \o SgrReset
         \o (IF row < Len(grid) THEN <<10>> ELSE <<>>)
         \o screenshot_rows(grid, row + 1)

\* Terminal::take_screenshot on the screen as drained
screen_to_ansi(grid) == screenshot_rows(grid, 1)

\* char::is_ascii_alphabetic
is_ascii_alphabetic(c) == (c >= 65 /\ c <= 90) \/ (c >= 97 /\ c <= 122)

RECURSIVE skip_csi(_, _)
\* the inner loop of strip_ansi: the position after the first letter at or
\* after position j (the end of the text when there is none)
skip_csi(text, j) ==
    IF j > Len(text) THEN j
    ELSE IF is_ascii_alphabetic(text[j]) THEN j + 1
    ELSE skip_csi(text, j + 1)

RECURSIVE strip_from(_, _)
\* the outer loop of strip_ansi from position i on
strip_from(text, i) ==
    IF i > Len(text) THEN <<>>
    ELSE IF text[i] = ESC THEN
        IF i + 1 <= Len(text) /\ text[i + 1] = 91      \* '['
        THEN strip_from(text, skip_csi(text, i + 2))
        ELSE strip_from(text, i + 1)
    ELSE <<text[i]>> \o strip_from(text, i + 1)

\* buffer::strip_ansi
strip_ansi(text) == strip_from(text, 1)

RECURSIVE row_contents(_, _, _)
\* vt100 Row::write_contents from column col (1-based) on: a cell without
\* contents writes nothing, a cell with contents is preceded by one space
\* for every column skipped since prev_col
row_contents(cells, col, prev_col) ==
    IF col > Len(cells) THEN <<>>
    ELSE IF has_contents(cells[col])
         THEN Repeat(<<32>>, col - prev_col) \o cells[col].contents
              \o row_contents(cells, col + 1, col + 1)
         ELSE row_contents(cells, col + 1, prev_col)

RECURSIVE trim_newlines(_)
\* while contents.ends_with('\n') { truncate }
trim_newlines(s) ==
    IF s # <<>> /\ s[Len(s)] = 10 THEN trim_newlines(SubSeq(s, 1, Len(s) - 1)) ELSE s

RECURSIVE rows_contents(_, _)
rows_contents(grid, row) ==
    IF row > Len(grid) THEN <<>>
    ELSE row_contents(grid[row], 1, 1) \o <<10>> \o rows_contents(grid, row + 1)

\* vt100 Screen::contents: the rows' text, each followed by a newline, with
\* the trailing newlines removed
contents(grid) == trim_newlines(rows_contents(grid, 1))

\* the grid written out in full: every row exactly as wide as the grid, the
\* first character of each cell (a space for an empty cell), rows joined by
\* newlines
grid_text(grid) ==
    join([r \in 1..Len(grid) |-> [c \in 1..Len(grid[r]) |-> cell_char(grid[r][c])]], <<10>>)

(***************************************************************************)
(* terminal/buffer.rs: cleaning of the text a tool returns.                *)
(***************************************************************************)
\* char::is_whitespace (White_Space) up to U+00FF
is_whitespace(c) == c \in {9, 10, 11, 12, 13, 32, 133, 160}

RECURSIVE trim_end(_)
\* str::trim_end
trim_end(s) ==
    IF s # <<>> /\ is_whitespace(s[Len(s)]) THEN trim_end(SubSeq(s, 1, Len(s) - 1)) ELSE s

\* the position of the first '\n' of s, 0 when there is none
FirstNewline(s) ==
    IF \E i \in 1..Len(s) : s[i] = 10
    THEN CHOOSE i \in 1..Len(s) : s[i] = 10 /\ \A j \in 1..(i - 1) : s[j] # 10
    ELSE 0

\* a line without the '\r' that ended it
StripCr(s) == IF s # <<>> /\ s[Len(s)] = 13 THEN SubSeq(s, 1, Len(s) - 1) ELSE s

RECURSIVE lines(_)
\* str::lines: the text split at '\n', every line without its line ending
\* ("\n" or "\r\n"); a final line ending starts no further line, and a
\* '\r' that no '\n' follows stays
lines(s) ==
    IF s = <<>> THEN <<>>
    ELSE LET i == FirstNewline(s) IN
         IF i = 0 THEN <<s>>
         ELSE <<StripCr(SubSeq(s, 1, i - 1))>> \o lines(SubSeq(s, i + 1, Len(s)))

\* buffer::trim_trailing_whitespace
trim_trailing_whitespace(text) ==
    LET ls == lines(text) IN join([i \in 1..Len(ls) |-> trim_end(ls[i])], <<10>>)

RECURSIVE DropEmptyTail(_)
\* while end > 0 && lines[end - 1].trim().is_empty() { end -= 1 }
DropEmptyTail(ls) ==
    IF ls # <<>> /\ trim_end(ls[Len(ls)]) = <<>>
    THEN DropEmptyTail(SubSeq(ls, 1, Len(ls) - 1))
    ELSE ls

\* buffer::trim_trailing_empty_lines
trim_trailing_empty_lines(text) == join(DropEmptyTail(lines(text)), <<10>>)

\* a plausible slip: only the trailing empty lines are removed
clean_output_lines_only(text) == trim_trailing_empty_lines(text)

\* buffer::clean_output
clean_output(text) == trim_trailing_empty_lines(trim_trailing_whitespace(text))

(***************************************************************************)
(* JSON values (serde_json::Value) as the server reads them.  A member of  *)
(* an object that is missing is Absent.  The payload v of a string is its  *)
(* text, of a number the number, of a boolean 0 or 1.                      *)
(***************************************************************************)
Absent == [t |-> "absent", v |-> <<>>]
JNull == [t |-> "null", v |-> <<>>]
JStr(s) == [t |-> "str", v |-> s]
JNum(n) == [t |-> "num", v |-> <<n>>]
JBool(b) == [t |-> "bool", v |-> <<IF b THEN 1 ELSE 0>>]
\* an object that deserializes into the struct its member is read as
JObject == [t |-> "obj", v |-> <<>>]

\* the `arguments` object of a tools/call
Args(text, key, format, start_row, end_row, include_trailing_whitespace) ==
    [t |-> "obj", text |-> text, key |-> key, format |-> format,
     start_row |-> start_row, end_row |-> end_row,
     include_trailing_whitespace |-> include_trailing_whitespace]

\* {}: serde_json::Map::new()
EmptyArgs == Args(Absent, Absent, Absent, Absent, Absent, Absent)

\* the `params` object of a request
Params(name, arguments, protocolVersion, capabilities, clientInfo) ==
    [t |-> "obj", name |-> name, arguments |-> arguments,
     protocolVersion |-> protocolVersion, capabilities |-> capabilities,
     clientInfo |-> clientInfo]

\* the `clientInfo` object of initialize params
ClientInfo(name, version) == [t |-> "obj", v |-> <<>>, name |-> name, version |-> version]

\* Option<T> from a member: missing and null are None
OptionOf(value) == IF value.t \in {"absent", "null"} THEN None ELSE Some(value)

\* Result<T, E>: v is the value, or the error's text
Ok(v) == [ok |-> TRUE, v |-> v]
Err(e) == [ok |-> FALSE, v |-> e]

\* the text of a serde_json error and of a std::io::Error
SerdeErrorText == <<115, 101, 114, 100, 101, 32, 101, 114, 114, 111, 114>>  \* "serde error"
IoErrorText == <<105, 111, 32, 101, 114, 114, 111, 114>>                    \* "io error"

(***************************************************************************)
(* terminal/pty.rs and terminal/emulator.rs: the engine.  A terminal is    *)
(* [sink, output_rx, screen, nchunks, writes, drains]: the bytes the PTY's *)
(* write sink has accepted, the chunks the reader thread has sent and the  *)
(* engine has not yet received, the Screen Model, and the number of chunks *)
(* read so far.  A chunk of PTY output is one that repaints the whole      *)
(* screen, given as the screen it leaves.  The last two fields only record *)
(* what happened during the request being handled: the writes to the sink  *)
(* ([data, accepted, ok]) and the screen each drain left.                  *)
(***************************************************************************)
\* what the sink does with one write: the write fails; the sink accepts
\* all the bytes; it accepts only the first n; it accepts all and the
\* flush fails
WriteOutcomes(maxShort) ==
    {[kind |-> "write_err", n |-> 0], [kind |-> "full", n |-> 0],
     [kind |-> "flush_err", n |-> 0]}
    \cup {[kind |-> "short", n |-> k] : k \in 0..maxShort}

\* the number of bytes of `data` the sink accepts
Accepted(data, wo) ==
    IF wo.kind = "write_err" THEN 0
    ELSE IF wo.kind = "short" /\ wo.n < Len(data) THEN wo.n
    ELSE Len(data)

\* "PTY error: Failed to write to PTY: {io error}"
PtyWriteErrorText ==
    <<80, 84, 89, 32, 101, 114, 114, 111, 114, 58, 32>>                \* "PTY error: "
    \o <<70, 97, 105, 108, 101, 100, 32, 116, 111, 32, 119, 114, 105,
         116, 101, 32, 116, 111, 32, 80, 84, 89, 58, 32>>              \* "Failed to write to PTY: "
    \o IoErrorText

\* Pty::write (and Terminal::write, which only converts the error): write
\* once, flush, return the count of the one write
pty_write(term, data, wo) ==
    [term |-> [term EXCEPT !.sink = @ \o SubSeq(data, 1, Accepted(data, wo)),
                           !.writes = Append(@, [data |-> data,
                                                 accepted |-> Accepted(data, wo),
                                                 ok |-> wo.kind \in {"full", "short"}])],
     r |-> IF wo.kind \in {"write_err", "flush_err"}
           THEN Err(PtyWriteErrorText) ELSE Ok(<<Accepted(data, wo)>>)]

\* Terminal::write_str
write_str(term, text, wo) == pty_write(term, as_bytes(text), wo)

\* Terminal::send_key: the count of the write is dropped
terminal_send_key(term, key, wo) ==
    LET w == pty_write(term, as_bytes(key_to_sequence(key)), wo) IN
    [term |-> w.term, r |-> IF w.r.ok THEN Ok(<<>>) ELSE w.r]

ClearSequence == <<ESC, 91, 50, 74, ESC, 91, 72>>    \* "\x1b[2J\x1b[H"

\* a plausible slip: clear also wipes the screen the engine keeps
terminal_clear_wiping(term, wo) ==
    LET w == pty_write(term, ClearSequence, wo) IN
    [term |-> [w.term EXCEPT !.screen =
                  [grid |-> [r \in DOMAIN @.grid |->
                               [c \in DOMAIN @.grid[r] |-> EmptyCell]],
                   cursor |-> <<0, 0>>]],
     r |-> IF w.r.ok THEN Ok(<<>>) ELSE w.r]

\* Terminal::clear: the count of the write is dropped
terminal_clear(term, wo) ==
    LET w == pty_write(term, ClearSequence, wo) IN
    [term |-> w.term, r |-> IF w.r.ok THEN Ok(<<>>) ELSE w.r]

\* the reader thread's send of one chunk
reader_send(term, chunk) ==
    [term EXCEPT !.output_rx = Append(@, chunk), !.nchunks = @ + 1]

\* Terminal::process_output: every chunk received is fed to the parser
process_output(term) ==
    LET after == IF term.output_rx = <<>> THEN term.screen
                 ELSE term.output_rx[Len(term.output_rx)]
    IN  [term EXCEPT !.screen = after, !.output_rx = <<>>, !.drains = Append(@, after)]

\* Terminal::size: the size the PTY tracks, (cols, rows)
terminal_size(term) == <<Len(term.screen.grid[1]), Len(term.screen.grid)>>

\* Terminal::get_content: [term, text]
get_content(term) ==
    LET t == process_output(term) IN [term |-> t, text |-> contents(t.screen.grid)]

\* Terminal::take_screenshot: [term, text]
take_screenshot(term) ==
    LET t == process_output(term) IN [term |-> t, text |-> screen_to_ansi(t.screen.grid)]

\* Terminal::cursor_position: [term, pos]
cursor_position(term) ==
    LET t == process_output(term) IN [term |-> t, pos |-> t.screen.cursor]

\* u16::min
Min(a, b) == IF a < b THEN a ELSE b

RECURSIVE content_rows(_, _, _), content_rows_each_terminated(_, _, _)
\* a plausible slip: the newline is pushed after every row, the last too
content_rows_each_terminated(grid, row, end) ==
    IF row >= end THEN <<>>
    ELSE (IF row + 1 <= Len(grid) THEN row_contents(grid[row + 1], 1, 1) ELSE <<>>)
         \o <<10>>
         \o content_rows_each_terminated(grid, row + 1, end)

\* the loop of get_content_range over the rows row..end-1 (0-based); a row's
\* text is vt100's contents_between(row, 0, row, cols)
content_rows(grid, row, end) ==
    IF row >= end THEN <<>>
    ELSE (IF row + 1 <= Len(grid) THEN row_contents(grid[row + 1], 1, 1) ELSE <<>>)
         \o (IF row < end - 1 THEN <<10>> ELSE <<>>)
         \o content_rows(grid, row + 1, end)

\* whether get_content_range evaluates `end - 1` with end = 0, which
\* overflows u16 (a panic in a debug build): the subtraction is evaluated
\* once for every row of start_row..end
range_overflows(start_row, end) == \E row \in start_row..(end - 1) : end < 1

\* Terminal::get_content_range: [term, text]
get_content_range(term, start_row, end_row) ==
    LET t == process_output(term)
        end == Min(end_row, terminal_size(t)[2])
    IN  [term |-> t, text |-> content_rows(t.screen.grid, start_row, end)]

(***************************************************************************)
(* tools/: the five tools.  A tool returns [term, r]: the terminal after   *)
(* the call and Ok(text), the text of CallToolResult::text, or Err(text),  *)
(* the error string.                                                       *)
(***************************************************************************)
InvalidArguments ==
    <<73, 110, 118, 97, 108, 105, 100, 32, 97, 114, 103, 117, 109, 101,
      110, 116, 115, 58, 32>>                          \* "Invalid arguments: "
FailedToWrite ==
    <<70, 97, 105, 108, 101, 100, 32, 116, 111, 32, 119, 114, 105, 116, 101, 32,
      116, 111, 32, 116, 101, 114, 109, 105, 110, 97, 108, 58, 32>>
                                                       \* "Failed to write to terminal: "
FailedToSendKey ==
    <<70, 97, 105, 108, 101, 100, 32, 116, 111, 32, 115, 101, 110, 100, 32,
      107, 101, 121, 58, 32>>                          \* "Failed to send key: "
FailedToClear ==
    <<70, 97, 105, 108, 101, 100, 32, 116, 111, 32, 99, 108, 101, 97, 114, 32,
      116, 101, 114, 109, 105, 110, 97, 108, 58, 32>>  \* "Failed to clear terminal: "
TypedPrefix == <<84, 121, 112, 101, 100, 32>>          \* "Typed "
TypedSuffix == <<32, 99, 104, 97, 114, 97, 99, 116, 101, 114, 115>>  \* " characters"
SentKey == <<83, 101, 110, 116, 32, 107, 101, 121, 58, 32>>          \* "Sent key: "
TerminalCleared ==
    <<84, 101, 114, 109, 105, 110, 97, 108, 32, 99, 108, 101, 97, 114, 101, 100>>
                                                       \* "Terminal cleared"
FormatPlain == <<112, 108, 97, 105, 110>>              \* "plain"
FormatAnsi == <<97, 110, 115, 105>>                    \* "ansi"

\* serde_json::from_value::<TypeArgs>: an object with a string `text`
TypeArgsOk(args) == args.t = "obj" /\ args.text.t = "str"

\* tools::type_text: the count reported is args.text.len(), the length of
\* the text in bytes
tools_type_text(term, args, wo) ==
    IF ~TypeArgsOk(args) THEN [term |-> term, r |-> Err(InvalidArguments \o SerdeErrorText)]
    ELSE LET w == write_str(term, args.text.v, wo) IN
         [term |-> w.term,
          r |-> IF w.r.ok
                THEN Ok(TypedPrefix \o Dec(Len(as_bytes(args.text.v))) \o TypedSuffix)
                ELSE Err(FailedToWrite \o w.r.v)]

\* serde_json::from_value::<SendKeyArgs>: an object with a string `key`
SendKeyArgsOk(args) == args.t = "obj" /\ args.key.t = "str"

\* tools::send_key
tools_send_key(term, args, wo) ==
    IF ~SendKeyArgsOk(args) THEN [term |-> term, r |-> Err(InvalidArguments \o SerdeErrorText)]
    ELSE LET w == terminal_send_key(term, args.key.v, wo) IN
         [term |-> w.term,
          r |-> IF w.r.ok THEN Ok(SentKey \o args.key.v) ELSE Err(FailedToSendKey \o w.r.v)]

\* a member read as Option<u16>
OptionU16Ok(value) ==
    value.t \in {"absent", "null"} \/ (value.t = "num" /\ value.v[1] \in 0..65535)

\* serde_json::from_value::<GetContentArgs>
GetContentArgsOk(args) ==
    /\ args.t = "obj"
    /\ OptionU16Ok(args.start_row)
    /\ OptionU16Ok(args.end_row)
    /\ args.include_trailing_whitespace.t \in {"absent", "bool"}

\* tools::get_content: arguments that do not parse are replaced by the
\* defaults (unwrap_or_default)
tools_get_content(term, args) ==
    LET a == IF GetContentArgsOk(args) THEN args ELSE EmptyArgs
        start_row == OptionOf(a.start_row)
        end_row == OptionOf(a.end_row)
        include_trailing_whitespace == a.include_trailing_whitespace = JBool(TRUE)
        c == IF start_row # None /\ end_row # None
                 THEN get_content_range(term, start_row[1].v[1], end_row[1].v[1])
             ELSE IF start_row # None
                 THEN get_content_range(term, start_row[1].v[1], terminal_size(term)[2])
             ELSE IF end_row # None
                 THEN get_content_range(term, 0, end_row[1].v[1])
             ELSE get_content(term)
    IN  [term |-> c.term,
         r |-> Ok(IF include_trailing_whitespace THEN c.text ELSE clean_output(c.text))]

\* serde_json::from_value::<ScreenshotArgs>: `format` is an Option<String>
ScreenshotArgsOk(args) == args.t = "obj" /\ args.format.t \in {"absent", "null", "str"}

\* the header of a screenshot: the size, the cursor and a rule of cols
\* times U+2500
screenshot_header(cols, rows, row, col) ==
    <<84, 101, 114, 109, 105, 110, 97, 108, 58, 32>>                  \* "Terminal: "
    \o Dec(cols) \o <<120>> \o Dec(rows)                               \* "x"
    \o <<32, 124, 32, 67, 117, 114, 115, 111, 114, 58, 32, 40>>       \* " | Cursor: ("
    \o Dec(row) \o <<44, 32>> \o Dec(col) \o <<41, 10>>                \* ", " ")\n"
    \o Repeat(<<9472>>, cols) \o <<10>>

RECURSIVE reader_sends(_, _)
\* the reader thread's sends of the chunks of `arrivals`, in order
reader_sends(term, arrivals) ==
    IF arrivals = <<>> THEN term
    ELSE reader_sends(reader_send(term, Head(arrivals)), Tail(arrivals))

\* a plausible slip: the header is left out of a plain screenshot
tools_take_screenshot_bare_plain(term, args, mid) ==
    LET a == IF ScreenshotArgsOk(args) THEN args ELSE EmptyArgs
        format == IF a.format.t = "str" THEN a.format.v ELSE FormatAnsi
        c == IF format = FormatPlain THEN get_content(term) ELSE take_screenshot(term)
        p == cursor_position(reader_sends(c.term, mid))
        size == terminal_size(p.term)
    IN  [term |-> p.term,
         r |-> Ok((IF format = FormatPlain THEN <<>>
                   ELSE screenshot_header(size[1], size[2], p.pos[1], p.pos[2]))
                  \o c.text)]

\* tools::take_screenshot.  The content and the cursor are read by two
\* engine calls, each of which drains the output channel; `mid` are the
\* chunks the reader thread sends between the two.
tools_take_screenshot(term, args, mid) ==
    LET a == IF ScreenshotArgsOk(args) THEN args ELSE EmptyArgs
        format == IF a.format.t = "str" THEN a.format.v ELSE FormatAnsi
        c == IF format = FormatPlain THEN get_content(term) ELSE take_screenshot(term)
        p == cursor_position(reader_sends(c.term, mid))
        size == terminal_size(p.term)
    IN  [term |-> p.term,
         r |-> Ok(screenshot_header(size[1], size[2], p.pos[1], p.pos[2]) \o c.text)]

\* tools::clear
tools_clear(term, args, wo) ==
    LET w == terminal_clear(term, wo) IN
    [term |-> w.term,
     r |-> IF w.r.ok THEN Ok(TerminalCleared) ELSE Err(FailedToClear \o w.r.v)]

\* a plausible slip: a definition's name differs from the name dispatched
get_tool_definitions_renamed == <<"type", "sendKey", "getContent", "screenshot", "clear">>

\* tools::get_tool_definitions: the names, in order
get_tool_definitions == <<"type", "sendKey", "getContent", "takeScreenshot", "clear">>

(***************************************************************************)
(* mcp/protocol.rs: the wire types.                                        *)
(***************************************************************************)
JSONRPC_VERSION == "2.0"
MCP_PROTOCOL_VERSION == "2024-11-05"

PARSE_ERROR == -32700
INVALID_REQUEST == -32600
METHOD_NOT_FOUND == -32601
INVALID_PARAMS == -32602
INTERNAL_ERROR == -32603

\* JsonRpcError: the message is the text's parts
parse_error(message) == [code |-> PARSE_ERROR, message |-> message, data |-> None]

\* a plausible slip: the error carries the code of an invalid request
method_not_found_as_invalid_request(method) ==
    [code |-> INVALID_REQUEST, message |-> <<"Method not found: ", method>>, data |-> None]

\* JsonRpcError::method_not_found
method_not_found(method) ==
    [code |-> METHOD_NOT_FOUND, message |-> <<"Method not found: ", method>>, data |-> None]
invalid_params(message) == [code |-> INVALID_PARAMS, message |-> message, data |-> None]
internal_error(message) == [code |-> INTERNAL_ERROR, message |-> message, data |-> None]

\* JsonRpcResponse::success and JsonRpcResponse::error
success(id, result) ==
    [jsonrpc |-> JSONRPC_VERSION, id |-> id, result |-> Some(result), error |-> None]
error(id, err) ==
    [jsonrpc |-> JSONRPC_VERSION, id |-> id, result |-> None, error |-> Some(err)]

\* CallToolResult::text and CallToolResult::error
CallToolResult_text(text) ==
    [content |-> <<[type |-> "text", text |-> text]>>, isError |-> None]
CallToolResult_error(message) ==
    [content |-> <<[type |-> "text", text |-> message]>>, isError |-> Some(TRUE)]

\* serde_json::to_string(&JsonRpcResponse): the JSON object written, with
\* the set of its members; a member whose Option is None is skipped
\* (skip_serializing_if = "Option::is_none")
to_string(response) ==
    [members |-> {"jsonrpc"}
                 \cup (IF response.id # None THEN {"id"} ELSE {})
                 \cup (IF response.result # None THEN {"result"} ELSE {})
                 \cup (IF response.error # None THEN {"error"} ELSE {}),
     jsonrpc |-> response.jsonrpc,
     id |-> IF response.id # None THEN response.id[1] ELSE Absent,
     result |-> response.result,
     error |-> response.error]

\* serde_json::from_str::<JsonRpcRequest>(line): jsonrpc and method must be
\* strings; id and params are Options
RequestOk(line) ==
    line.kind = "json" /\ line.jsonrpc.t = "str" /\ line.method.t = "str"

from_str(line) ==
    [jsonrpc |-> line.jsonrpc.v, id |-> OptionOf(line.id), method |-> line.method.v,
     params |-> OptionOf(line.params)]

(***************************************************************************)
(* mcp/server.rs: the dispatcher.  A server is [terminal, initialized].    *)
(* A handler returns Ok(value) or Err(JsonRpcError); the inputs of a call  *)
(* from outside are env = [wo, mid]: what the PTY's sink does with a       *)
(* write, and the chunks the reader thread sends while a screenshot is     *)
(* being taken.                                                            *)
(***************************************************************************)
\* serde_json::from_value::<InitializeParams>
InitializeParamsOk(p) ==
    /\ p.t = "obj"
    /\ p.protocolVersion.t = "str"
    /\ p.capabilities.t = "obj"
    /\ p.clientInfo.t = "obj"
    /\ p.clientInfo.name.t = "str"
    /\ p.clientInfo.version.t = "str"

InitializeResult ==
    [protocolVersion |-> MCP_PROTOCOL_VERSION,
     capabilities |-> [tools |-> [listChanged |-> FALSE]],
     serverInfo |-> [name |-> "terminal-mcp", version |-> "CARGO_PKG_VERSION"]]

\* a plausible slip: the version the client asked for is answered back
handle_initialize_echoing(params) ==
    IF params = None THEN Err(invalid_params(<<"Missing initialize params">>))
    ELSE IF ~InitializeParamsOk(params[1]) THEN Err(invalid_params(<<"serde error">>))
    ELSE Ok([InitializeResult EXCEPT !.protocolVersion = params[1].protocolVersion.v])

\* McpServer::handle_initialize
handle_initialize(params) ==
    IF params = None THEN Err(invalid_params(<<"Missing initialize params">>))
    ELSE IF ~InitializeParamsOk(params[1]) THEN Err(invalid_params(<<"serde error">>))
    ELSE Ok(InitializeResult)

\* McpServer::handle_tools_list
handle_tools_list == Ok([tools |-> get_tool_definitions])

\* serde_json::from_value::<CallToolParams>: an object with a string `name`
CallToolParamsOk(p) == p.t = "obj" /\ p.name.t = "str"

\* the tool of a call, by name
call_tool(term, name, args, env) ==
    CASE name = "type" -> tools_type_text(term, args, env.wo)
      [] name = "sendKey" -> tools_send_key(term, args, env.wo)
      [] name = "getContent" -> tools_get_content(term, args)
      [] name = "takeScreenshot" -> tools_take_screenshot(term, args, env.mid)
      [] OTHER -> tools_clear(term, args, env.wo)

\* the match on the tool's result c = [term, r] in handle_tools_call:
\* Ok(text) => CallToolResult::text(text), Err(e) => CallToolResult::error(e)
tool_result(c) ==
    [term |-> c.term,
     r |-> IF c.r.ok THEN Ok(CallToolResult_text(c.r.v))
           ELSE Ok(CallToolResult_error(c.r.v))]

\* the same match with the error arm returning a JSON-RPC error
tool_result_protocol_error(c) ==
    [term |-> c.term,
     r |-> IF c.r.ok THEN Ok(CallToolResult_text(c.r.v))
           ELSE Err(internal_error(<<"tool error">>))]

\* a plausible slip: a tool's error becomes a protocol error
handle_tools_call_protocol_error(term, params, env) ==
    IF params = None
    THEN [term |-> term, r |-> Err(invalid_params(<<"Missing call params">>))]
    ELSE IF ~CallToolParamsOk(params[1])
    THEN [term |-> term, r |-> Err(invalid_params(<<"serde error">>))]
    ELSE LET name == params[1].name.v
             args == IF OptionOf(params[1].arguments) = None THEN EmptyArgs
                     ELSE params[1].arguments
         IN  IF name \notin {"type", "sendKey", "getContent", "takeScreenshot", "clear"}
             THEN [term |-> term, r |-> Err(invalid_params(<<"Unknown tool: ", name>>))]
             ELSE tool_result_protocol_error(call_tool(term, name, args, env))

\* McpServer::handle_tools_call: [term, r]
handle_tools_call(term, params, env) ==
    IF params = None
    THEN [term |-> term, r |-> Err(invalid_params(<<"Missing call params">>))]
    ELSE IF ~CallToolParamsOk(params[1])
    THEN [term |-> term, r |-> Err(invalid_params(<<"serde error">>))]
    ELSE LET name == params[1].name.v
             args == IF OptionOf(params[1].arguments) = None THEN EmptyArgs
                     ELSE params[1].arguments
         IN  IF name \notin {"type", "sendKey", "getContent", "takeScreenshot", "clear"}
             THEN [term |-> term, r |-> Err(invalid_params(<<"Unknown tool: ", name>>))]
             ELSE tool_result(call_tool(term, name, args, env))

\* the server after a tool call c = [term, r] on its terminal (the handler
\* holds the lock of self.terminal)
with_terminal(server, c) == [server |-> [server EXCEPT !.terminal = c.term], r |-> c.r]

\* a plausible slip: a tool call before initialization is refused
handle_method_gated(server, request, env) ==
    CASE request.method = "initialize" ->
            [server |-> server, r |-> handle_initialize(request.params)]
      [] request.method = "ping" -> [server |-> server, r |-> Ok([t |-> "obj"])]
      [] request.method = "tools/list" -> [server |-> server, r |-> handle_tools_list]
      [] request.method = "tools/call" /\ ~server.initialized ->
            [server |-> server,
             r |-> Err([code |-> INVALID_REQUEST,
                        message |-> <<"Server not initialized">>, data |-> None])]
      [] request.method = "tools/call" ->
            with_terminal(server, handle_tools_call(server.terminal, request.params, env))
      [] OTHER -> [server |-> server, r |-> Err(method_not_found(request.method))]

\* a plausible slip: ping refreshes the screen from the pending output
handle_method_ping_drains(server, request, env) ==
    CASE request.method = "initialize" ->
            [server |-> server, r |-> handle_initialize(request.params)]
      [] request.method = "ping" ->
            [server |-> [server EXCEPT !.terminal = process_output(@)],
             r |-> Ok([t |-> "obj"])]
      [] request.method = "tools/list" -> [server |-> server, r |-> handle_tools_list]
      [] request.method = "tools/call" ->
            with_terminal(server, handle_tools_call(server.terminal, request.params, env))
      [] OTHER -> [server |-> server, r |-> Err(method_not_found(request.method))]

\* the arms of handle_request that compute a result: [server, r]
handle_method(server, request, env) ==
    CASE request.method = "initialize" ->
            [server |-> server, r |-> handle_initialize(request.params)]
      [] request.method = "ping" -> [server |-> server, r |-> Ok([t |-> "obj"])]
      [] request.method = "tools/list" -> [server |-> server, r |-> handle_tools_list]
      [] request.method = "tools/call" ->
            with_terminal(server, handle_tools_call(server.terminal, request.params, env))
      [] OTHER -> [server |-> server, r |-> Err(method_not_found(request.method))]

\* a plausible slip: the response is built without the request's id
response_of_without_id(request, h) ==
    LET is_notification == request.id = None IN
    [server |-> h.server,
     response |-> IF is_notification THEN None
                  ELSE Some(IF h.r.ok THEN success(None, h.r.v)
                            ELSE error(None, h.r.v))]

\* the tail of handle_request: the response to `request` given the result
\* h = [server, r] of its method
response_of(request, h) ==
    LET is_notification == request.id = None IN
    [server |-> h.server,
     response |-> IF is_notification THEN None
                  ELSE Some(IF h.r.ok THEN success(request.id, h.r.v)
                            ELSE error(request.id, h.r.v))]

\* the same tail without the notification check
response_always(request, h) ==
    [server |-> h.server,
     response |-> Some(IF h.r.ok THEN success(request.id, h.r.v)
                       ELSE error(request.id, h.r.v))]

\* a plausible slip: the response is built without the notification check
handle_request_always_answers(server, request, env) ==
    IF request.method = "initialized"
    THEN [server |-> [server EXCEPT !.initialized = TRUE], response |-> None]
    ELSE IF request.method = "notifications/cancelled"
    THEN [server |-> server, response |-> None]
    ELSE response_always(request, handle_method(server, request, env))

\* a plausible slip: the flag is set only when `initialized` comes as a
\* notification
handle_request_flag_by_notification(server, request, env) ==
    IF request.method = "initialized"
    THEN [server |-> [server EXCEPT !.initialized = @ \/ request.id = None],
          response |-> None]
    ELSE IF request.method = "notifications/cancelled"
    THEN [server |-> server, response |-> None]
    ELSE response_of(request, handle_method(server, request, env))

\* a plausible slip: the two notification methods are acknowledged when
\* they come with an id
handle_request_acknowledging(server, request, env) ==
    IF request.method = "initialized"
    THEN [server |-> [server EXCEPT !.initialized = TRUE],
          response |-> IF request.id = None THEN None
                       ELSE Some(success(request.id, [t |-> "obj"]))]
    ELSE IF request.method = "notifications/cancelled"
    THEN [server |-> server,
          response |-> IF request.id = None THEN None
                       ELSE Some(success(request.id, [t |-> "obj"]))]
    ELSE response_of(request, handle_method(server, request, env))

\* McpServer::handle_request: [server, response], the response an
\* Option<JsonRpcResponse>
handle_request(server, request, env) ==
    IF request.method = "initialized"
    THEN [server |-> [server EXCEPT !.initialized = TRUE], response |-> None]
    ELSE IF request.method = "notifications/cancelled"
    THEN [server |-> server, response |-> None]
    ELSE response_of(request, handle_method(server, request, env))

(***************************************************************************)
(* State.                                                                  *)
(***************************************************************************)
VARIABLES
    key_in,     \* SpecKeys: the key name given to key_to_sequence
    key_out,    \* SpecKeys: its result, once computed
    screen,     \* the Screen Model: [grid, cursor]
    shot,       \* SpecScreen: the result of Terminal::take_screenshot
    content,    \* SpecScreen: the result of Terminal::get_content
    nread,        \* the number of lines read from the input stream
    read_log,     \* what each line read was: "blank", "malformed",
                  \* "notification" (a request without id), "unanswered"
                  \* (`initialized` or `notifications/cancelled` with an
                  \* id: handle_request returns None) or "request"
    tpc,          \* transport task: "select", "send" (awaiting
                  \* request_tx.send) or "done"
    treq,         \* the request the transport task is sending, an Option
    request_ch,   \* the request channel (transport -> dispatcher)
    dpc,          \* dispatcher loop: "recv", "send" (awaiting
                  \* response_tx.send) or "done"
    dresp,        \* the response the dispatcher is sending, an Option
    response_ch,  \* the response channel (dispatcher -> transport)
    stdout,       \* the responses written to the output stream, in order
    server,       \* McpServer: [terminal, initialized]
    last,         \* the request handled last and its response, an Option
    conc,         \* SpecDispatch: the handlers in flight and the engine mutex
    sized,        \* SpecResize: [term, call]: the sizes kept by the terminal
                  \* and the call of Terminal::resize made last, an Option
    call,         \* SpecInitialize, SpecTools, SpecKeyTable, SpecClean: the call
                  \* studied, its arguments and its result
    range,        \* SpecRange: [start_row, end_row, pending, r]: the arguments
                  \* of get_content_range, the output not yet drained and
                  \* the result, an Option
    pipe,         \* SpecReader: the reader thread, the output channel and the engine
    chan,         \* SpecChannels: the two loops and their channels, requests by number
    drain         \* SpecDrain: the output channel by chunk count, the reader and the engine call

base_vars == <<key_in, key_out, screen, shot, content>>
aux_vars == <<conc, sized, range, call, pipe, chan, drain>>
pure_vars == <<base_vars, aux_vars>>
proto_vars == <<nread, read_log, tpc, treq, request_ch, dpc, dresp, response_ch,
                stdout, server, last>>
vars == <<pure_vars, proto_vars>>

Unset == <<-1>>

\* the screen of a new terminal: Parser::new(rows, cols, 1000)
BlankScreen ==
    [grid |-> [r \in 1..ScreenRows |-> [c \in 1..ScreenCols |-> EmptyCell]],
     cursor |-> <<0, 0>>]

(***************************************************************************)
(* Spec: the server.  The transport task (run_stdio_loop) reads lines and  *)
(* writes responses, the dispatcher loop (main) handles one request at a   *)
(* time, the reader thread forwards the shell's output.  The two loops     *)
(* are joined by the request and response channels.                        *)
(***************************************************************************)
\* mpsc::channel::<_>(32)
ChannelCapacity == 32

\* a plausible slip: the channel hands over the newest message first
mpsc_send_lifo(ch, msg) == <<msg>> \o ch

\* mpsc::Sender::send on a channel with room
mpsc_send(ch, msg) == Append(ch, msg)

\* the terminal of a new server: Terminal::new
NewTerminal ==
    [sink |-> <<>>, output_rx |-> <<>>, screen |-> BlankScreen, nchunks |-> 0,
     writes |-> <<>>, drains |-> <<>>]

\* McpServer::new
NewServer == [terminal |-> NewTerminal, initialized |-> FALSE]

ProtoInit ==
    /\ nread = 0
    /\ read_log = <<>>
    /\ tpc = "select"
    /\ treq = None
    /\ request_ch = <<>>
    /\ dpc = "recv"
    /\ dresp = None
    /\ response_ch = <<>>
    /\ stdout = <<>>
    /\ server = NewServer
    /\ last = None

\* the variables of the other specifications, at rest
AuxInit ==
    /\ conc = Unset
    /\ sized = Unset
    /\ range = Unset
    /\ call = Unset
    /\ pipe = Unset
    /\ chan = Unset
    /\ drain = Unset

PureInit ==
    /\ key_in = <<>>
    /\ key_out = Unset
    /\ screen = BlankScreen
    /\ shot = Unset
    /\ content = Unset
    /\ AuxInit

\* a screen with one cell written at the top left
PaintedScreen(cell, cursor) ==
    [grid |-> [r \in 1..ScreenRows |->
                  [c \in 1..ScreenCols |-> IF r = 1 /\ c = 1 THEN cell ELSE EmptyCell]],
     cursor |-> cursor]

\* the chunks of output the shell may produce
PtyChunks ==
    { PaintedScreen(Cell(<<97>>, ColorDefault, ColorDefault, FALSE, FALSE, FALSE, FALSE),
                    <<0, 1>>),
      PaintedScreen(Cell(<<98>>, ColorIdx(1), ColorDefault, TRUE, FALSE, FALSE, FALSE),
                    <<1, 0>>) }

\* a line of input: blank, not JSON at all, or a JSON object with these members
Line(kind, id, method, params) ==
    [kind |-> kind, jsonrpc |-> JStr("2.0"), id |-> id, method |-> method, params |-> params]

CallParams(name, arguments) == Params(JStr(name), arguments, Absent, Absent, Absent)
InitParams(clientInfo) == Params(Absent, Absent, JStr(<<49>>), JObject, clientInfo)

TextHi == <<104, 105>>              \* "hi"
TextEAcute == <<233>>               \* "e" with an acute accent, U+00E9
KeyEnter == <<69, 110, 116, 101, 114>>    \* "Enter"
KeyHi == <<72, 105>>                \* "Hi", no key of the table

\* the params of the tools/call requests drawn
CallParamsDrawn ==
    { Absent,
      Params(Absent, EmptyArgs, Absent, Absent, Absent),
      CallParams("nope", Absent),
      CallParams("type", Args(JStr(TextHi), Absent, Absent, Absent, Absent, Absent)),
      CallParams("type", Args(JStr(TextEAcute), Absent, Absent, Absent, Absent, Absent)),
      CallParams("type", Absent),
      CallParams("type", Args(JNum(5), Absent, Absent, Absent, Absent, Absent)),
      CallParams("sendKey", Args(Absent, JStr(KeyEnter), Absent, Absent, Absent, Absent)),
      CallParams("sendKey", Args(Absent, JStr(KeyHi), Absent, Absent, Absent, Absent)),
      CallParams("sendKey", JNull),
      CallParams("getContent", Absent),
      CallParams("getContent", Args(Absent, Absent, Absent, JStr(<<120>>), Absent, Absent)),
      CallParams("getContent", Args(Absent, Absent, Absent, JNum(0), JNum(1), JBool(TRUE))),
      CallParams("takeScreenshot", Args(Absent, Absent, JStr(FormatPlain), Absent, Absent, Absent)),
      CallParams("takeScreenshot", Args(Absent, Absent, JStr(FormatAnsi), Absent, Absent, Absent)),
      CallParams("takeScreenshot", Absent),
      CallParams("takeScreenshot", Args(Absent, Absent, JNum(5), Absent, Absent, Absent)),
      CallParams("clear", Absent) }

\* the lines the client may write
InputLines ==
    { Line("blank", Absent, Absent, Absent),
      Line("garbage", Absent, Absent, Absent),
      Line("json", JNum(1), Absent, Absent),
      Line("json", JNull, JStr("ping"), Absent) }
    \cup { Line("json", id, JStr(m), Absent) :
             id \in {Absent, JNum(1)},
             m \in {"initialize", "initialized", "ping", "tools/list",
                    "notifications/cancelled", "foo/bar"} }
    \cup { Line("json", id, JStr("initialize"), InitParams(ci)) :
             id \in {Absent, JNum(1)}, ci \in {ClientInfo(JStr(<<99>>), JStr(<<49>>)), Absent} }
    \cup { Line("json", JNum(1), JStr("tools/call"), p) : p \in CallParamsDrawn }
    \cup { Line("json", Absent, JStr("tools/call"), p) :
             p \in { Absent,
                     CallParams("type", Absent),
                     CallParams("type", Args(JStr(TextHi), Absent, Absent, Absent, Absent, Absent)),
                     CallParams("takeScreenshot", Absent),
                     CallParams("clear", Absent) } }

\* what the log keeps of a request read
LogKind(request) ==
    IF request.id = None THEN "notification"
    ELSE IF request.method \in {"initialized", "notifications/cancelled"}
    THEN "unanswered"
    ELSE "request"

\* run_stdio_loop, the read branch: one line is read.  A blank line is
\* skipped; a line that parses is sent to the dispatcher (the await of the
\* send is TransportSend); for any other line a parse error is written,
\* whatever the write returns.
TransportReadLine ==
    /\ tpc = "select"
    /\ nread < MaxLines
    /\ \E line \in InputLines :
        /\ nread' = nread + 1
        /\ IF line.kind = "blank"
           THEN /\ read_log' = Append(read_log, "blank")
                /\ UNCHANGED <<tpc, treq, stdout>>
           ELSE IF RequestOk(line)
           THEN /\ read_log' = Append(read_log, LogKind(from_str(line)))
                /\ tpc' = "send"
                /\ treq' = Some([seq |-> nread + 1, request |-> from_str(line)])
                /\ UNCHANGED stdout
           ELSE /\ read_log' = Append(read_log, "malformed")
                /\ stdout' = Append(stdout,
                                    [seq |-> nread + 1, by |-> "transport",
                                     json |-> to_string(error(None, parse_error(<<"serde error">>)))])
                /\ UNCHANGED <<tpc, treq>>
    /\ UNCHANGED <<pure_vars, request_ch, dpc, dresp, response_ch, server, last>>

\* run_stdio_loop: request_tx.send(request).await completes
TransportSend ==
    /\ tpc = "send"
    /\ Len(request_ch) < ChannelCapacity
    /\ request_ch' = mpsc_send(request_ch, treq[1])
    /\ tpc' = "select"
    /\ treq' = None
    /\ UNCHANGED <<pure_vars, nread, read_log, dpc, dresp, response_ch, stdout, server, last>>

\* run_stdio_loop, the write branch: a response is received and written
TransportWrite ==
    /\ tpc = "select"
    /\ response_ch # <<>>
    /\ stdout' = Append(stdout, [seq |-> Head(response_ch).seq, by |-> "dispatcher",
                                 json |-> to_string(Head(response_ch).response)])
    /\ response_ch' = Tail(response_ch)
    /\ UNCHANGED <<pure_vars, nread, read_log, tpc, treq, request_ch, dpc, dresp, server, last>>

\* run_stdio_loop: end of input (or a read error) ends the loop; both of
\* its channel ends are dropped
TransportEof ==
    /\ tpc = "select"
    /\ tpc' = "done"
    /\ UNCHANGED <<pure_vars, nread, read_log, treq, request_ch, dpc, dresp, response_ch,
                   stdout, server, last>>

\* main: a request is received and handled to the end
DispatcherHandle ==
    /\ dpc = "recv"
    /\ request_ch # <<>>
    /\ \E wo \in WriteOutcomes(MaxShort),
          mid \in {<<>>} \cup (IF server.terminal.nchunks < MaxChunks
                               THEN {<<c>> : c \in PtyChunks} ELSE {}) :
        \E msg \in {Head(request_ch)} :
        \E h \in {handle_request([server EXCEPT !.terminal.writes = <<>>,
                                                !.terminal.drains = <<>>],
                                  msg.request, [wo |-> wo, mid |-> mid])} :
            /\ server' = h.server
            /\ last' = Some([seq |-> msg.seq, request |-> msg.request,
                             response |-> h.response])
            /\ IF h.response # None
               THEN /\ dpc' = "send"
                    /\ dresp' = Some([seq |-> msg.seq, response |-> h.response[1]])
               ELSE UNCHANGED <<dpc, dresp>>
    /\ request_ch' = Tail(request_ch)
    /\ UNCHANGED <<pure_vars, nread, read_log, tpc, treq, response_ch, stdout>>

\* main: response_tx.send(response).await completes
DispatcherSend ==
    /\ dpc = "send"
    /\ tpc # "done"
    /\ Len(response_ch) < ChannelCapacity
    /\ response_ch' = mpsc_send(response_ch, dresp[1])
    /\ dpc' = "recv"
    /\ dresp' = None
    /\ UNCHANGED <<pure_vars, nread, read_log, tpc, treq, request_ch, stdout, server, last>>

\* main: the send fails because the transport has dropped the receiver;
\* the loop breaks
DispatcherSendFails ==
    /\ dpc = "send"
    /\ tpc = "done"
    /\ dpc' = "done"
    /\ dresp' = None
    /\ UNCHANGED <<pure_vars, nread, read_log, tpc, treq, request_ch, response_ch, stdout,
                   server, last>>

\* a plausible slip: main keeps a clone of request_tx, so the channel never
\* closes and recv() never returns None
DispatcherExit_sender_kept ==
    /\ FALSE
    /\ UNCHANGED vars

\* main: request_rx.recv() returns None once the channel is empty and the
\* transport has dropped the sender
DispatcherExit ==
    /\ dpc = "recv"
    /\ request_ch = <<>>
    /\ tpc = "done"
    /\ dpc' = "done"
    /\ UNCHANGED <<pure_vars, nread, read_log, tpc, treq, request_ch, dresp, response_ch,
                   stdout, server, last>>

\* the reader thread: a chunk of the shell's output is read and sent
PtyRead ==
    /\ dpc # "done"
    /\ server.terminal.nchunks < MaxChunks
    /\ \E chunk \in PtyChunks :
        server' = [server EXCEPT !.terminal = reader_send(@, chunk)]
    /\ UNCHANGED <<pure_vars, nread, read_log, tpc, treq, request_ch, dpc, dresp,
                   response_ch, stdout, last>>

Init == PureInit /\ ProtoInit

Next ==
    \/ TransportReadLine
    \/ TransportSend
    \/ TransportWrite
    \/ TransportEof
    \/ DispatcherHandle
    \/ DispatcherSend
    \/ DispatcherSendFails
    \/ DispatcherExit
    \/ PtyRead

Spec == Init /\ [][Next]_vars

(***************************************************************************)
(* SpecKeys: key_to_sequence applied to every key name over KeyChars of    *)
(* length up to MaxKeyLen.                                                 *)
(***************************************************************************)
\* 'C' 'c' 'A' 'a' '-' '+' 'f' '1' 'm'
KeyChars == {67, 99, 65, 97, 45, 43, 102, 49, 109}

KeysInit ==
    /\ key_in \in SeqsUpTo(KeyChars, MaxKeyLen)
    /\ key_out = Unset
    /\ screen = BlankScreen
    /\ shot = Unset
    /\ content = Unset
    /\ AuxInit
    /\ ProtoInit

Encode ==
    /\ key_out = Unset
    /\ key_out' = key_to_sequence(key_in)
    /\ UNCHANGED <<key_in, screen, shot, content, aux_vars, proto_vars>>

KeysNext == Encode

SpecKeys == KeysInit /\ [][KeysNext]_vars

(***************************************************************************)
(* SpecScreen: take_screenshot and get_content applied to every grid of    *)
(* ScreenRows x ScreenCols cells drawn from SampleCells.                   *)
(***************************************************************************)
\* an empty cell; a plain 'a'; a bold red 'b'; 'e' with a combining acute
\* accent (U+0301) on an RGB background
SampleCells ==
    { EmptyCell,
      Cell(<<97>>, ColorDefault, ColorDefault, FALSE, FALSE, FALSE, FALSE),
      Cell(<<98>>, ColorIdx(1), ColorDefault, TRUE, FALSE, FALSE, FALSE),
      Cell(<<101, 769>>, ColorDefault, ColorRgb(1, 2, 3), FALSE, FALSE, FALSE, FALSE) }

ScreenInit ==
    /\ screen \in [grid : [1..ScreenRows -> [1..ScreenCols -> SampleCells]],
                   cursor : {<<0, 0>>}]
    /\ shot = Unset
    /\ content = Unset
    /\ key_in = <<>>
    /\ key_out = Unset
    /\ AuxInit
    /\ ProtoInit

\* both queries on the same screen state (no output is pending)
Capture ==
    /\ shot = Unset
    /\ shot' = screen_to_ansi(screen.grid)
    /\ content' = contents(screen.grid)
    /\ UNCHANGED <<screen, key_in, key_out, aux_vars, proto_vars>>

ScreenNext == Capture

SpecScreen == ScreenInit /\ [][ScreenNext]_vars

(***************************************************************************)
(* The claims.  `last` is the request the dispatcher handled last with its *)
(* response; server.terminal.writes and .drains are the writes to the PTY  *)
(* and the screens read while that request was handled.                    *)
(***************************************************************************)
Handled == last # None
LastRequest == last[1].request
LastResponse == last[1].response

\* the request handled last is a tools/call with an id
IsCall == Handled /\ LastRequest.id # None /\ LastRequest.method = "tools/call"

\* ... whose params name the tool `name`
IsCallOf(name) ==
    /\ IsCall
    /\ LastRequest.params # None
    /\ CallToolParamsOk(LastRequest.params[1])
    /\ LastRequest.params[1].name.v = name

\* the arguments handed to the tool
LastArgs ==
    IF OptionOf(LastRequest.params[1].arguments) = None THEN EmptyArgs
    ELSE LastRequest.params[1].arguments

\* the response is a success response carrying a tool result
HasToolResult ==
    /\ LastResponse # None
    /\ LastResponse[1].error = None
    /\ LastResponse[1].result # None

LastToolResult == LastResponse[1].result[1]

\* C1: a message without id is never answered, whatever its method and
\* whether handling it succeeds: handle_request returns no response for
\* it and no response on the output stream belongs to it.
C1_NotificationNoResponse ==
    /\ (Handled /\ LastRequest.id = None) => LastResponse = None
    /\ \A i \in 1..Len(stdout) : read_log[stdout[i].seq] # "notification"

\* a notification of an unknown method, which as a request would be
\* answered with an error, was handled
C1_Witness ==
    /\ Handled
    /\ LastRequest.id = None
    /\ LastRequest.method = "foo/bar"
    /\ LastResponse = None

\* C2: the responses of the dispatcher appear on the output stream in the
\* order in which their requests were read from the input stream.
C2_ResponsesInArrivalOrder ==
    \A i, j \in 1..Len(stdout) :
        (i < j /\ stdout[i].by = "dispatcher" /\ stdout[j].by = "dispatcher")
            => stdout[i].seq < stdout[j].seq

\* two responses of the dispatcher have been written
C2_Witness ==
    /\ Len(stdout) = 2
    /\ stdout[1].by = "dispatcher"
    /\ stdout[2].by = "dispatcher"

\* the arguments of the tools/call handled last fail to parse
ArgumentsFailToParse ==
    \/ LastRequest.params = None
    \/ ~CallToolParamsOk(LastRequest.params[1])
    \/ (LastRequest.params[1].name.v = "type" /\ ~TypeArgsOk(LastArgs))
    \/ (LastRequest.params[1].name.v = "sendKey" /\ ~SendKeyArgsOk(LastArgs))
    \/ (LastRequest.params[1].name.v = "getContent" /\ ~GetContentArgsOk(LastArgs))
    \/ (LastRequest.params[1].name.v = "takeScreenshot" /\ ~ScreenshotArgsOk(LastArgs))

\* C3: a tools/call whose arguments fail to parse is answered with a
\* JSON-RPC error of code -32602 and is rejected before the tool runs: no
\* tool result is returned, nothing is written to the PTY and the screen
\* is not read.
C3_BadArgumentsRejected ==
    (IsCall /\ ArgumentsFailToParse) =>
        /\ LastResponse # None
        /\ LastResponse[1].result = None
        /\ LastResponse[1].error # None
        /\ LastResponse[1].error[1].code = INVALID_PARAMS
        /\ server.terminal.writes = <<>>
        /\ server.terminal.drains = <<>>

\* the first write of the call handled last failed
EngineFailed == server.terminal.writes # <<>> /\ ~server.terminal.writes[1].ok

\* C4: when the engine fails during a tools/call whose arguments parsed,
\* the response is a JSON-RPC success response whose result has
\* isError = true and one text item describing the failure; there is one
\* response at most for the request and it is no protocol error.
C4_EngineFailureIsToolResult ==
    (IsCall /\ EngineFailed) =>
        /\ HasToolResult
        /\ LastToolResult.isError = Some(TRUE)
        /\ Len(LastToolResult.content) = 1
        /\ LastToolResult.content[1].type = "text"
        /\ \/ starts_with(LastToolResult.content[1].text, FailedToWrite \o PtyWriteErrorText)
           \/ starts_with(LastToolResult.content[1].text, FailedToSendKey \o PtyWriteErrorText)
           \/ starts_with(LastToolResult.content[1].text, FailedToClear \o PtyWriteErrorText)
        /\ Cardinality({i \in 1..Len(stdout) : stdout[i].seq = last[1].seq}) <= 1

\* a sendKey whose write to the PTY failed has been answered
C4_Witness ==
    /\ IsCallOf("sendKey")
    /\ EngineFailed
    /\ HasToolResult
    /\ LastToolResult.isError = Some(TRUE)

\* C5: a key name that matches no entry of the table (compared
\* case-insensitively) is returned unchanged, byte for byte, letter case
\* included.
C5_UnknownKeyPassthrough ==
    (key_out # Unset /\ ~InKeyTable(to_lowercase(key_in))) => key_out = key_in

\* the `type` call handled last reported success
TypeSucceeded ==
    /\ IsCallOf("type")
    /\ TypeArgsOk(LastArgs)
    /\ HasToolResult
    /\ LastToolResult.isError = None

RECURSIVE CharsWritten(_, _)
\* the number of characters of `text` whose UTF-8 bytes lie within the
\* first n bytes written
CharsWritten(text, n) ==
    IF text = <<>> \/ Len(Utf8Char(Head(text))) > n THEN 0
    ELSE 1 + CharsWritten(Tail(text), n - Len(Utf8Char(Head(text))))

\* C6: on success `type` has handed the UTF-8 bytes of the text to the PTY
\* and the number it reports is the number of characters of the text that
\* were written.
C6_TypedCountIsCharacters ==
    TypeSucceeded =>
        /\ server.terminal.writes[1].data = as_bytes(LastArgs.text.v)
        /\ LastToolResult.content[1].text =
               TypedPrefix
               \o Dec(CharsWritten(LastArgs.text.v, server.terminal.writes[1].accepted))
               \o TypedSuffix

\* C7: Pty::write returns the number of bytes the sink accepted, and when
\* type, sendKey or clear report success every byte of what they wrote
\* has been accepted by the PTY.
C7_SuccessMeansAllWritten ==
    /\ \A wo \in WriteOutcomes(MaxShort) :
           pty_write(NewTerminal, as_bytes(TextHi), wo).r.ok =>
               pty_write(NewTerminal, as_bytes(TextHi), wo).r.v
                   = <<Len(pty_write(NewTerminal, as_bytes(TextHi), wo).term.sink)>>
    /\ (IsCall /\ HasToolResult /\ LastToolResult.isError = None) =>
           \A i \in 1..Len(server.terminal.writes) :
               server.terminal.writes[i].accepted = Len(server.terminal.writes[i].data)

\* the takeScreenshot handled last asked for the format "plain"
PlainAsked == ScreenshotArgsOk(LastArgs) /\ LastArgs.format = JStr(FormatPlain)

\* the header the tool builds: the size and the cursor read by the second
\* engine call
LastHeader ==
    screenshot_header(terminal_size(server.terminal)[1], terminal_size(server.terminal)[2],
                      server.terminal.drains[2].cursor[1],
                      server.terminal.drains[2].cursor[2])

C9_StrippedScreenshotIsContent ==
    shot # Unset => strip_ansi(shot) = content

\* C9 as amended: the screenshot with its ANSI escape sequences removed is
\* the grid written out in full (every row as wide as the grid, the first
\* character of each cell, a space for an empty cell, rows joined by
\* newlines).
C9_StrippedScreenshotIsGridText ==
    shot # Unset => strip_ansi(shot) = grid_text(screen.grid)

\* a screenshot was taken of a screen with a styled cell, an empty cell and
\* a cell holding a combining character
C9_Witness ==
    /\ shot # Unset
    /\ \E r \in 1..ScreenRows, c \in 1..ScreenCols : screen.grid[r][c].bold
    /\ \E r \in 1..ScreenRows, c \in 1..ScreenCols : ~has_contents(screen.grid[r][c])
    /\ \E r \in 1..ScreenRows, c \in 1..ScreenCols : Len(screen.grid[r][c].contents) > 1
    /\ strip_ansi(shot) # content

\* C10: every line read that is no well-formed request has exactly one
\* response on the output stream, with the error code -32700 and a member
\* `id` whose value is null.
C10_ParseErrorHasNullId ==
    \A n \in 1..Len(read_log) :
        read_log[n] = "malformed" =>
            /\ Cardinality({i \in 1..Len(stdout) : stdout[i].seq = n}) = 1
            /\ \A i \in 1..Len(stdout) :
                   stdout[i].seq = n =>
                       /\ stdout[i].json.error # None
                       /\ stdout[i].json.error[1].code = PARSE_ERROR
                       /\ "id" \in stdout[i].json.members
                       /\ stdout[i].json.id = JNull

\* the methods handle_request knows
KnownMethods ==
    {"initialize", "initialized", "ping", "tools/list", "tools/call",
     "notifications/cancelled"}

\* this step is the dispatcher handling the request at the head of the
\* request channel
HandlingStep == dpc = "recv" /\ request_ch # <<>> /\ request_ch' = Tail(request_ch)

\* the request being handled in a HandlingStep
Handling == Head(request_ch).request

\* what a terminal is made of, the logs of the last call left out
TerminalState(term) == <<term.sink, term.output_rx, term.screen, term.nchunks>>

\* C11: a request with an id whose method is none of the known ones is
\* answered with the error -32601 carrying the request's id, and handling
\* it changes neither the initialized flag nor the terminal.
C11_UnknownMethodNotFound ==
    [][(HandlingStep /\ Handling.id # None /\ Handling.method \notin KnownMethods) =>
          /\ last'[1].response # None
          /\ last'[1].response[1].id = Handling.id
          /\ last'[1].response[1].result = None
          /\ last'[1].response[1].error # None
          /\ last'[1].response[1].error[1].code = METHOD_NOT_FOUND
          /\ server'.initialized = server.initialized
          /\ TerminalState(server'.terminal) = TerminalState(server.terminal)
          /\ server'.terminal.writes = <<>>
          /\ server'.terminal.drains = <<>>]_vars

\* a request foo/bar with an id has been answered
C11_Witness ==
    /\ Handled
    /\ LastRequest.id # None
    /\ LastRequest.method = "foo/bar"
    /\ LastResponse # None
    /\ LastResponse[1].error # None

\* C12: the initialized flag starts false; a step changes it only by
\* handling a message of method `initialized`, which makes it true; no
\* other step, whatever the method handled, changes it, so it never
\* returns to false and is true exactly when such a message was handled.
C12_InitializedSetOnce ==
    /\ ~server.initialized
    /\ [][/\ HandlingStep =>
               server'.initialized = (server.initialized \/ Handling.method = "initialized")
          /\ ~HandlingStep => server'.initialized = server.initialized]_vars

\* the flag is set and an `initialize` request has been handled after it
C12_Witness ==
    /\ server.initialized
    /\ Handled
    /\ LastRequest.method = "initialize"

\* the dispatcher is about to handle the request at the head of the
\* request channel
AboutToHandle == dpc = "recv" /\ request_ch # <<>>

\* the server with its flag set to b
WithFlag(b) == [server EXCEPT !.initialized = b]

\* C13: whatever request is about to be handled, in whatever state the
\* terminal is and whatever the PTY does, the response and the terminal
\* after it are the same with the initialized flag false as with it true.
C13_NotGatedOnInitialization ==
    AboutToHandle =>
        \A wo \in WriteOutcomes(MaxShort), mid \in {<<>>} \cup {<<c>> : c \in PtyChunks} :
            /\ handle_request(WithFlag(FALSE), Handling, [wo |-> wo, mid |-> mid]).response
                 = handle_request(WithFlag(TRUE), Handling, [wo |-> wo, mid |-> mid]).response
            /\ handle_request(WithFlag(FALSE), Handling, [wo |-> wo, mid |-> mid]).server.terminal
                 = handle_request(WithFlag(TRUE), Handling, [wo |-> wo, mid |-> mid]).server.terminal

\* a tools/call with an id is about to be handled by a server whose flag an
\* earlier `initialized` message has set
C13_Witness ==
    /\ AboutToHandle
    /\ Handling.method = "tools/call"
    /\ Handling.id # None
    /\ server.initialized

\* the methods that are notifications by name
NotificationMethods == {"initialized", "notifications/cancelled"}

\* C14: a message of method `initialized` or `notifications/cancelled`
\* is never answered, with or without an id: handle_request returns no
\* response for it and the dispatcher has none of it to send.
C14_NotificationMethodsNeverAnswered ==
    (Handled /\ LastRequest.method \in NotificationMethods) =>
        /\ LastResponse = None
        /\ (dresp # None => dresp[1].seq # last[1].seq)
        /\ \A i \in 1..Len(response_ch) : response_ch[i].seq # last[1].seq
        /\ \A i \in 1..Len(stdout) : stdout[i].seq # last[1].seq

\* an `initialized` message that carries an id was handled
C14_Witness ==
    /\ Handled
    /\ LastRequest.method = "initialized"
    /\ LastRequest.id # None
    /\ LastResponse = None

(***************************************************************************)
(* SpecDispatch: the dispatcher loop of main and the engine mutex, at the  *)
(* grain of their awaits.  conc = [kinds, taken, handlers, mutex,          *)
(* contended]: the kinds of the requests sent so far ("call" for a         *)
(* tools/call that reaches the lock, "other" for the rest), the number the *)
(* loop has received, the calls of handle_request in flight as pairs       *)
(* <<n, pc>>, the request holding the lock of self.terminal (0: free), and *)
(* whether a lock attempt ever found the lock held.                        *)
(***************************************************************************)
\* a plausible slip: each request is handled by a task of its own, and the
\* loop receives the next at once
can_recv_spawned(handlers) == TRUE

\* main: the body of the loop is awaited to its end (handle_request, then
\* the send of the response) before request_rx.recv() is polled again
can_recv(handlers) == handlers = {}

DispatchInit ==
    /\ conc = [kinds |-> <<>>, taken |-> 0, handlers |-> {}, mutex |-> 0,
               contended |-> FALSE]
    /\ sized = Unset
    /\ range = Unset
    /\ call = Unset
    /\ key_in = <<>>
    /\ key_out = Unset
    /\ screen = BlankScreen
    /\ shot = Unset
    /\ content = Unset
    /\ pipe = Unset
    /\ chan = Unset
    /\ drain = Unset
    /\ ProtoInit

\* run_stdio_loop: a request is sent on the request channel
RequestArrives ==
    /\ Len(conc.kinds) < MaxRequests
    /\ \E kind \in {"call", "other"} : conc' = [conc EXCEPT !.kinds = Append(@, kind)]
    /\ UNCHANGED <<sized, range, call, pipe, chan, drain, base_vars, proto_vars>>

\* main: request_rx.recv() returns a request and handle_request is called
LoopRecv ==
    /\ can_recv(conc.handlers)
    /\ conc.taken < Len(conc.kinds)
    /\ conc' = [conc EXCEPT
                  !.taken = @ + 1,
                  !.handlers = @ \cup {<<conc.taken + 1,
                                         IF conc.kinds[conc.taken + 1] = "call"
                                         THEN "lock" ELSE "respond">>}]
    /\ UNCHANGED <<sized, range, call, pipe, chan, drain, base_vars, proto_vars>>

\* handle_tools_call: self.terminal.lock().await
HandlerLock ==
    /\ \E h \in conc.handlers :
        /\ h[2] = "lock"
        /\ IF conc.mutex = 0
           THEN conc' = [conc EXCEPT !.mutex = h[1],
                                     !.handlers = (@ \ {h}) \cup {<<h[1], "tool">>}]
           ELSE conc' = [conc EXCEPT !.contended = TRUE]
    /\ UNCHANGED <<sized, range, call, pipe, chan, drain, base_vars, proto_vars>>

\* handle_tools_call: the tool runs on the locked terminal
HandlerTool ==
    /\ \E h \in conc.handlers :
        /\ h[2] = "tool"
        /\ conc' = [conc EXCEPT !.handlers = (@ \ {h}) \cup {<<h[1], "unlock">>}]
    /\ UNCHANGED <<sized, range, call, pipe, chan, drain, base_vars, proto_vars>>

\* handle_tools_call returns: the guard is dropped
HandlerUnlock ==
    /\ \E h \in conc.handlers :
        /\ h[2] = "unlock"
        /\ conc' = [conc EXCEPT !.mutex = 0,
                                !.handlers = (@ \ {h}) \cup {<<h[1], "respond">>}]
    /\ UNCHANGED <<sized, range, call, pipe, chan, drain, base_vars, proto_vars>>

\* main: handle_request has returned; the response, if any, is sent
LoopSend ==
    /\ \E h \in conc.handlers :
        /\ h[2] = "respond"
        /\ conc' = [conc EXCEPT !.handlers = @ \ {h}]
    /\ UNCHANGED <<sized, range, call, pipe, chan, drain, base_vars, proto_vars>>

DispatchNext ==
    \/ RequestArrives
    \/ LoopRecv
    \/ HandlerLock
    \/ HandlerTool
    \/ HandlerUnlock
    \/ LoopSend

SpecDispatch == DispatchInit /\ [][DispatchNext]_vars

\* C15: at most one call of handle_request is in flight at any time, so
\* at most one tool call holds or runs on the engine, and no lock attempt
\* ever finds the engine's mutex held.
C15_OneRequestAtATime ==
    /\ Cardinality(conc.handlers) <= 1
    /\ Cardinality({h \in conc.handlers : h[2] \in {"tool", "unlock"}}) <= 1
    /\ \A h \in conc.handlers : h[2] = "lock" => conc.mutex = 0
    /\ ~conc.contended

\* a tools/call holds the lock while another request waits in the request
\* channel
C15_Witness ==
    /\ \E h \in conc.handlers : h[2] = "tool" /\ conc.mutex = h[1]
    /\ conc.taken < Len(conc.kinds)
    /\ conc.kinds[conc.taken + 1] = "call"

(***************************************************************************)
(* SpecResize: Terminal::resize called any number of times on a terminal   *)
(* created with any configured size, each call of the PTY's resize either  *)
(* succeeding or failing.  The terminal is [pty, parser]: pty.size is the  *)
(* PtySize kept by Pty, parser the size of the parser's screen.            *)
(***************************************************************************)
Dims == 0..MaxDim

\* PtySize { rows, cols, pixel_width: 0, pixel_height: 0 }
PtySize(rows, cols) == [rows |-> rows, cols |-> cols]

\* Pty::new: the size comes from the configuration
pty_new(config) == [size |-> PtySize(config.rows, config.cols)]

\* Pty::resize: [pty, r]; master_ok is the outcome of self.master.resize
pty_resize(pty, cols, rows, master_ok) ==
    IF ~master_ok
    THEN [pty |-> pty, r |-> Err("ResizeError")]
    ELSE [pty |-> [pty EXCEPT !.size = PtySize(rows, cols)], r |-> Ok(<<>>)]

\* Pty::size: (cols, rows)
pty_size(pty) == <<pty.size.cols, pty.size.rows>>

\* vt100::Parser::new(rows, cols, scrollback): the size of its screen
parser_new(rows, cols) == [rows |-> rows, cols |-> cols]

\* vt100::Parser::set_size(rows, cols)
parser_set_size(parser, rows, cols) == [rows |-> rows, cols |-> cols]

\* vt100::Screen::size: (rows, cols)
screen_size(parser) == <<parser.rows, parser.cols>>

\* Terminal::new: both sizes come from the configuration
terminal_new(config) ==
    [pty |-> pty_new(config), parser |-> parser_new(config.rows, config.cols)]

\* the rest of Terminal::resize, once self.pty.resize has returned p
resize_after(term, p, cols, rows) ==
    IF ~p.r.ok
    THEN [term |-> [term EXCEPT !.pty = p.pty], r |-> p.r]
    ELSE [term |-> [pty |-> p.pty, parser |-> parser_set_size(term.parser, rows, cols)],
          r |-> Ok(<<>>)]

\* a plausible slip: the parser is resized before the PTY is asked
resize_parser_first(term, cols, rows, master_ok) ==
    resize_after([term EXCEPT !.parser = parser_set_size(@, rows, cols)],
                 pty_resize(term.pty, cols, rows, master_ok), cols, rows)

\* Terminal::resize: [term, r]
resize(term, cols, rows, master_ok) ==
    resize_after(term, pty_resize(term.pty, cols, rows, master_ok), cols, rows)

\* Terminal::size
size(term) == pty_size(term.pty)

ResizeInit ==
    /\ \E cols \in Dims, rows \in Dims :
         sized = [term |-> terminal_new([cols |-> cols, rows |-> rows]), call |-> None]
    /\ conc = Unset
    /\ range = Unset
    /\ call = Unset
    /\ key_in = <<>>
    /\ key_out = Unset
    /\ screen = BlankScreen
    /\ shot = Unset
    /\ content = Unset
    /\ pipe = Unset
    /\ chan = Unset
    /\ drain = Unset
    /\ ProtoInit

\* a call of Terminal::resize
Resize ==
    /\ \E cols \in Dims, rows \in Dims, master_ok \in BOOLEAN :
         \E t \in {resize(sized.term, cols, rows, master_ok)} :
            sized' = [term |-> t.term,
                      call |-> Some([cols |-> cols, rows |-> rows, r |-> t.r,
                                     before |-> sized.term])]
    /\ UNCHANGED <<conc, range, call, pipe, chan, drain, base_vars, proto_vars>>

ResizeNext == Resize

SpecResize == ResizeInit /\ [][ResizeNext]_vars

\* C16: the size kept by the PTY session equals the size of the parser's
\* screen at all times, from creation on and whatever resizes succeed or
\* fail; a resize that fails leaves both sizes as they were, one that
\* succeeds sets both to the size asked for.
C16_SizesAgree ==
    /\ size(sized.term) = <<screen_size(sized.term.parser)[2],
                            screen_size(sized.term.parser)[1]>>
    /\ sized.call # None =>
         IF sized.call[1].r.ok
         THEN /\ size(sized.term) = <<sized.call[1].cols, sized.call[1].rows>>
              /\ screen_size(sized.term.parser) = <<sized.call[1].rows, sized.call[1].cols>>
         ELSE sized.term = sized.call[1].before

\* a resize to another size has failed on a terminal that is not square
C16_Witness ==
    /\ sized.call # None
    /\ ~sized.call[1].r.ok
    /\ <<sized.call[1].cols, sized.call[1].rows>> # size(sized.call[1].before)
    /\ size(sized.term)[1] # size(sized.term)[2]

(***************************************************************************)
(* SpecRange: Terminal::get_content_range applied to every grid of         *)
(* ScreenRows x ScreenCols cells drawn from RangeCells, with or without a  *)
(* chunk of output still to drain, for start and end rows inside the grid, *)
(* at its edge, beyond it and at u16::MAX.                                 *)
(***************************************************************************)
\* an empty cell; a plain 'a'
RangeCells ==
    { EmptyCell,
      Cell(<<97>>, ColorDefault, ColorDefault, FALSE, FALSE, FALSE, FALSE) }

RangeArgs == 0..(ScreenRows + 1) \cup {U16Max}

RangeInit ==
    /\ screen \in [grid : [1..ScreenRows -> [1..ScreenCols -> RangeCells]],
                   cursor : {<<0, 0>>}]
    /\ range \in [start_row : RangeArgs, end_row : RangeArgs,
                  pending : {<<>>} \cup {<<c>> : c \in PtyChunks}, r : {None}]
    /\ conc = Unset
    /\ sized = Unset
    /\ call = Unset
    /\ key_in = <<>>
    /\ key_out = Unset
    /\ shot = Unset
    /\ content = Unset
    /\ pipe = Unset
    /\ chan = Unset
    /\ drain = Unset
    /\ ProtoInit

\* a call of Terminal::get_content_range; screen becomes the screen after
\* the drain
GetRange ==
    /\ range.r = None
    /\ \E c \in {get_content_range([NewTerminal EXCEPT !.screen = screen,
                                                        !.output_rx = range.pending],
                                   range.start_row, range.end_row)} :
         /\ screen' = c.term.screen
         /\ range' = [range EXCEPT
                        !.pending = c.term.output_rx,
                        !.r = Some([text |-> c.text,
                                    overflow |-> range_overflows(
                                        range.start_row,
                                        Min(range.end_row, terminal_size(c.term)[2]))])]
    /\ UNCHANGED <<key_in, key_out, shot, content, conc, sized, call, pipe, chan, drain, proto_vars>>

RangeNext == GetRange

SpecRange == RangeInit /\ [][RangeNext]_vars

\* the rows from .. to - 1 (0-based) of the grid as text, one string each
RowTexts(grid, from, to) ==
    [i \in 1..(IF to > from THEN to - from ELSE 0) |->
        row_contents(grid[from + i], 1, 1)]

\* the number of rows of the grid, or end_row if that is smaller
ClampedEnd == IF range.end_row < Len(screen.grid) THEN range.end_row ELSE Len(screen.grid)

\* C18: for every start and end, get_content_range overflows nowhere and
\* returns the text of the rows start .. min(end, rows) - 1 joined by single
\* newlines, with no newline after the last; the text is empty whenever
\* start >= min(end, rows).
C18_RangeIsClampedJoin ==
    range.r # None =>
        /\ ~range.r[1].overflow
        /\ range.r[1].text = join(RowTexts(screen.grid, range.start_row, ClampedEnd), <<10>>)
        /\ range.start_row >= ClampedEnd => range.r[1].text = <<>>

\* a range from row 0 to an end row beyond the grid returned several rows,
\* the last of them not empty
C18_Witness ==
    /\ range.r # None
    /\ range.start_row = 0
    /\ range.end_row > Len(screen.grid)
    /\ Len(range.r[1].text) >= 3
    /\ range.r[1].text[Len(range.r[1].text)] # 10
    /\ \E i \in 1..Len(range.r[1].text) : range.r[1].text[i] = 10

(***************************************************************************)
(* SpecLive: Spec with the scheduling of the dispatcher loop.  main runs   *)
(* on the runtime's main task: whenever request_rx.recv() or               *)
(* response_tx.send() can complete the task is woken and polled, so a step *)
(* of the loop that stays possible is eventually taken.  Nothing is        *)
(* assumed of the client (lines may stop coming at any time) nor of the    *)
(* shell.                                                                  *)
(***************************************************************************)
\* DispatcherHandle is enabled exactly when the loop waits in recv() and the
\* request channel holds a request (handle_request returns for every
\* request), and its steps are the steps that take the head of the channel
CanHandle == dpc = "recv" /\ request_ch # <<>>
Handles == CanHandle /\ request_ch' = Tail(request_ch)

\* WF_vars(DispatcherHandle), written with CanHandle for its ENABLED
DispatcherHandleFair == <>[]CanHandle => []<><<Handles>>_vars

SpecLive ==
    /\ Init
    /\ [][Next]_vars
    /\ DispatcherHandleFair
    /\ WF_vars(DispatcherSendFails)
    /\ WF_vars(DispatcherExit)

C20_OnlyToolsCallTouchesTerminal ==
    [][(HandlingStep /\ Handling.method # "tools/call") =>
          /\ TerminalState(server'.terminal) = TerminalState(server.terminal)
          /\ server'.terminal.writes = <<>>
          /\ server'.terminal.drains = <<>>
          /\ Handling.method = "notifications/cancelled" =>
                /\ server'.initialized = server.initialized
                /\ last'[1].response = None
                /\ dpc' = dpc
                /\ dresp' = dresp
                /\ response_ch' = response_ch
                /\ stdout' = stdout]_vars

\* notifications/cancelled has been handled after an earlier response was
\* written, while output of the shell waits to be drained
C20_Witness ==
    /\ Handled
    /\ LastRequest.method = "notifications/cancelled"
    /\ server.terminal.output_rx # <<>>
    /\ stdout # <<>>

(***************************************************************************)
(* SpecInitialize: one `initialize` request handled by a server that has   *)
(* or has not been initialized before, for params that are absent, lack a  *)
(* member, hold a member of the wrong type, or are complete with either of *)
(* two values for each member.                                             *)
(***************************************************************************)
InitializeParamsDrawn ==
    {None} \cup
    { Some(Params(Absent, Absent, pv, caps, ci)) :
        pv \in {Absent, JNum(1), JStr("2024-11-05"), JStr("1.0")},
        caps \in {Absent, JObject, JNum(1)},
        ci \in {Absent} \cup
               { ClientInfo(n, v) : n \in {Absent, JStr("a"), JStr("b")},
                                    v \in {Absent, JStr("1"), JStr("2")} } }

InitializeInit ==
    /\ \E params \in InitializeParamsDrawn, initialized \in BOOLEAN :
         call = [server |-> [NewServer EXCEPT !.initialized = initialized],
                 request |-> [jsonrpc |-> JSONRPC_VERSION, id |-> Some(JNum(1)),
                              method |-> "initialize", params |-> params],
                 h |-> None]
    /\ conc = Unset
    /\ sized = Unset
    /\ range = Unset
    /\ key_in = <<>>
    /\ key_out = Unset
    /\ screen = BlankScreen
    /\ shot = Unset
    /\ content = Unset
    /\ pipe = Unset
    /\ chan = Unset
    /\ drain = Unset
    /\ ProtoInit

\* the request is handled
Initialize ==
    /\ call.h = None
    /\ \E h \in {handle_request(call.server, call.request,
                                [wo |-> [kind |-> "full", n |-> 0], mid |-> <<>>])} :
         call' = [call EXCEPT !.h = Some(h)]
    /\ UNCHANGED <<conc, sized, range, pipe, chan, drain, base_vars, proto_vars>>

InitializeNext == Initialize

SpecInitialize == InitializeInit /\ [][InitializeNext]_vars

\* the params hold protocolVersion (a string), capabilities (an object) and
\* clientInfo (an object with the strings name and version)
HasRequiredFields(params) ==
    /\ params # None
    /\ params[1].protocolVersion.t = "str"
    /\ params[1].capabilities.t = "obj"
    /\ params[1].clientInfo.t = "obj"
    /\ params[1].clientInfo.name.t = "str"
    /\ params[1].clientInfo.version.t = "str"

\* C21: an initialize request whose params hold the required fields is
\* answered with protocolVersion "2024-11-05", capabilities.tools.listChanged
\* false and the server's name and version, whatever the fields' values
\* and whether or not the server was initialized before; with params absent
\* or a required field missing the answer is the error -32602.
C21_InitializeResultIsFixed ==
    call.h # None =>
        LET response == call.h[1].response[1] IN
        IF HasRequiredFields(call.request.params)
        THEN /\ response.error = None
             /\ response.result # None
             /\ response.result[1].protocolVersion = "2024-11-05"
             /\ response.result[1].capabilities.tools.listChanged = FALSE
             /\ response.result[1].serverInfo.name = "terminal-mcp"
             /\ response.result[1].serverInfo = InitializeResult.serverInfo
        ELSE /\ response.result = None
             /\ response.error # None
             /\ response.error[1].code = -32602

\* a server initialized before has answered complete params that ask for
\* another protocol version
C21_Witness ==
    /\ call.h # None
    /\ call.server.initialized
    /\ HasRequiredFields(call.request.params)
    /\ call.request.params[1].protocolVersion = JStr("1.0")
    /\ call.h[1].response[1].result # None

(***************************************************************************)
(* SpecTools: a tools/list request and a tools/call request for a drawn    *)
(* tool name, handled in either order by a server in a drawn state.        *)
(***************************************************************************)
\* the five names, re-cased names, a method name, the empty name, others
ToolNamesDrawn ==
    {"type", "sendKey", "getContent", "takeScreenshot", "clear",
     "Type", "sendkey", "screenshot", "get_content", "tools/list", "", "nope"}

ToolsRequest(method, params) ==
    [jsonrpc |-> JSONRPC_VERSION, id |-> Some(JNum(1)), method |-> method, params |-> params]

ToolsInit ==
    /\ \E name \in ToolNamesDrawn, initialized \in BOOLEAN, wo \in WriteOutcomes(MaxShort) :
         call = [server |-> [NewServer EXCEPT !.initialized = initialized],
                 name |-> name, wo |-> wo, listed |-> None, called |-> None]
    /\ conc = Unset
    /\ sized = Unset
    /\ range = Unset
    /\ key_in = <<>>
    /\ key_out = Unset
    /\ screen = BlankScreen
    /\ shot = Unset
    /\ content = Unset
    /\ pipe = Unset
    /\ chan = Unset
    /\ drain = Unset
    /\ ProtoInit

\* a tools/list request is handled
ListTools ==
    /\ call.listed = None
    /\ \E h \in {handle_request(call.server, ToolsRequest("tools/list", None),
                                [wo |-> call.wo, mid |-> <<>>])} :
         call' = [call EXCEPT !.server = h.server, !.listed = h.response]
    /\ UNCHANGED <<conc, sized, range, pipe, chan, drain, base_vars, proto_vars>>

\* a tools/call request for the drawn name, without arguments, is handled
CallTool ==
    /\ call.called = None
    /\ \E h \in {handle_request(call.server,
                                ToolsRequest("tools/call", Some(CallParams(call.name, Absent))),
                                [wo |-> call.wo, mid |-> <<>>])} :
         call' = [call EXCEPT !.server = h.server, !.called = h.response]
    /\ UNCHANGED <<conc, sized, range, pipe, chan, drain, base_vars, proto_vars>>

ToolsNext == ListTools \/ CallTool

SpecTools == ToolsInit /\ [][ToolsNext]_vars

\* the names a tools/list response lists
ListedNames == {call.listed[1].result[1].tools[i] :
                  i \in 1..Len(call.listed[1].result[1].tools)}

\* the tools/call response is a tool's result, not a protocol error
Dispatched == call.called[1].result # None

\* C22: whatever the server's state and whether a tool was called before
\* or not, tools/list answers type, sendKey, getContent, takeScreenshot,
\* clear in this order; tools/call runs a tool exactly when the name is one
\* of those listed and rejects every other name as an unknown tool.
C22_ListedIsDispatched ==
    /\ call.listed # None =>
         /\ call.listed[1].error = None
         /\ call.listed[1].result[1].tools =
              <<"type", "sendKey", "getContent", "takeScreenshot", "clear">>
    /\ call.called # None /\ ~Dispatched =>
         /\ call.called[1].error[1].code = -32602
         /\ call.called[1].error[1].message = <<"Unknown tool: ", call.name>>
    /\ (call.listed # None /\ call.called # None) =>
         (call.name \in ListedNames <=> Dispatched)

\* takeScreenshot has been called, draining the output, and the tools have
\* been listed
C22_Witness ==
    /\ call.listed # None
    /\ call.called # None
    /\ call.name = "takeScreenshot"
    /\ Dispatched
    /\ call.server.terminal.drains # <<>>

(***************************************************************************)
(* SpecKeyTable: key_to_sequence applied to every re-casing of every name  *)
(* of the encoder's table and of some alt/meta names.  call.name is the    *)
(* name in lower case, key_in the re-casing given to key_to_sequence.      *)
(***************************************************************************)
\* char::to_ascii_uppercase
UpperChar(c) == IF c >= 97 /\ c <= 122 THEN c - 32 ELSE c

\* the strings that differ from s in the case of letters only
Recasings(s) ==
    { [i \in 1..Len(s) |-> IF i \in U THEN UpperChar(s[i]) ELSE s[i]] :
        U \in SUBSET {i \in 1..Len(s) : UpperChar(s[i]) # s[i]} }

\* the names of the table's literal arms
TableNames == UNION {e.names : e \in KeyTable}

\* "x", "ab", "" and "1" behind each of the three alt/meta prefixes
AltNames ==
    { prefix \o x : prefix \in {AltPlus, AltMinus, MMinus},
                    x \in {<<120>>, <<97, 98>>, <<>>, <<49>>} }

KeyTableInit ==
    /\ \E name \in TableNames \cup AltNames :
         /\ call = [name |-> name]
         /\ key_in \in Recasings(name)
    /\ key_out = Unset
    /\ conc = Unset
    /\ sized = Unset
    /\ range = Unset
    /\ screen = BlankScreen
    /\ shot = Unset
    /\ content = Unset
    /\ pipe = Unset
    /\ chan = Unset
    /\ drain = Unset
    /\ ProtoInit

SpecKeyTable == KeyTableInit /\ [][KeysNext]_vars

\* C23: every re-casing of a name of the table, upper, lower or mixed, is
\* encoded as the name itself is.
C23_CaseInsensitive ==
    key_out # Unset => key_out = key_to_sequence(call.name)

\* "CTRL+C" has been encoded as byte 3
C23_Witness ==
    /\ key_in = <<67, 84, 82, 76, 43, 67>>
    /\ key_out = <<3>>

\* C24: "ctrl+L", "ctrl-L" and "c-L" give the single byte L - 'a' + 1 for
\* every letter L of a..z, and "ctrl+[", "ctrl+\", "ctrl+]", "ctrl+^",
\* "ctrl+_" give the bytes 0x1b, 0x1c, 0x1d, 0x1e, 0x1f.
C24_CtrlBytes ==
    key_out # Unset =>
        /\ \A l \in 97..122 :
             key_in \in {<<99, 116, 114, 108, 43, l>>, <<99, 116, 114, 108, 45, l>>,
                         <<99, 45, l>>}
               => key_out = <<l - 97 + 1>>
        /\ key_in = <<99, 116, 114, 108, 43, 91>> => key_out = <<27>>
        /\ key_in = <<99, 116, 114, 108, 43, 92>> => key_out = <<28>>
        /\ key_in = <<99, 116, 114, 108, 43, 93>> => key_out = <<29>>
        /\ key_in = <<99, 116, 114, 108, 43, 94>> => key_out = <<30>>
        /\ key_in = <<99, 116, 114, 108, 43, 95>> => key_out = <<31>>

\* "c-z" has been encoded
C24_Witness ==
    /\ key_in = <<99, 45, 122>>
    /\ key_out = <<26>>

\* the alt/meta prefix key_in starts with, in any letter case
AltPrefixLen ==
    IF starts_with(to_lowercase(key_in), <<97, 108, 116, 43>>) THEN 4
    ELSE IF starts_with(to_lowercase(key_in), <<97, 108, 116, 45>>) THEN 4
    ELSE IF starts_with(to_lowercase(key_in), <<109, 45>>) THEN 2
    ELSE 0

\* C25: "alt+x", "alt-x" and "m-x", the prefix in any letter case, give
\* ESC followed by x exactly as it was written.
C25_AltSendsLiteral ==
    key_out # Unset /\ AltPrefixLen > 0 =>
        key_out = <<27>> \o SubSeq(key_in, AltPrefixLen + 1, Len(key_in))

(***************************************************************************)
(* SpecClean: clean_output applied to every text over TextChars of length  *)
(* up to MaxTextLen, and applied again to its result.                      *)
(***************************************************************************)
\* 'a', ' ', '\n', '\r', a no-break space (U+00A0)
TextChars == {97, 32, 10, 13, 160}

CleanInit ==
    /\ call \in [text : SeqsUpTo(TextChars, MaxTextLen), r : {None}]
    /\ conc = Unset
    /\ sized = Unset
    /\ range = Unset
    /\ key_in = <<>>
    /\ key_out = Unset
    /\ screen = BlankScreen
    /\ shot = Unset
    /\ content = Unset
    /\ pipe = Unset
    /\ chan = Unset
    /\ drain = Unset
    /\ ProtoInit

\* clean_output(text), and clean_output of that
Clean ==
    /\ call.r = None
    /\ \E once \in {clean_output(call.text)} :
         call' = [call EXCEPT !.r = Some([once |-> once, twice |-> clean_output(once)])]
    /\ UNCHANGED <<conc, sized, range, pipe, chan, drain, base_vars, proto_vars>>

CleanNext == Clean

SpecClean == CleanInit /\ [][CleanNext]_vars

\* the text has a whitespace character other than '\n' right before a '\n'
\* or at its end
LineEndsInWhitespace(text) ==
    \E i \in 1..Len(text) :
        /\ text[i] \in {9, 11, 12, 13, 32, 133, 160}
        /\ i = Len(text) \/ text[i + 1] = 10

\* C26: cleaning a cleaned text changes nothing; a cleaned text has no line
\* that ends in whitespace and does not end with an empty line.
C26_CleanOutputIdempotent ==
    call.r # None =>
        /\ call.r[1].twice = call.r[1].once
        /\ ~LineEndsInWhitespace(call.r[1].once)
        /\ call.r[1].once # <<>> => call.r[1].once[Len(call.r[1].once)] # 10

\* "a \na " has been cleaned to "a\na"
C26_Witness ==
    /\ call.r # None
    /\ call.text = <<97, 32, 10, 97, 32>>
    /\ call.r[1].once = <<97, 10, 97>>

(***************************************************************************)
(* SpecReader: the reader thread of Terminal::new, the output channel and  *)
(* the engine calls that receive from it, at the grain of one read, one    *)
(* send and one try_recv.  The shell's output is the byte sequence         *)
(* 1, 2, 3, ...; pipe = [read, rpc, buf, output_rx, sent, fed, nfed, epc,  *)
(* snap, queries]: the bytes read from the PTY master so far, the reader's *)
(* position and buffer, the channel, the number of chunks sent, the bytes  *)
(* and number of chunks fed to the parser, the engine's position, the      *)
(* number of chunks that had been sent when the engine call began, and the *)
(* number of engine calls.                                                 *)
(***************************************************************************)
\* a plausible slip: a read of no byte is forwarded like any other
reader_match_forwarding(n) == "send"

\* the reader thread's match on reader.read(&mut buf) = Ok(n)
reader_match(n) == IF n = 0 THEN "break" ELSE "send"

\* mpsc::Receiver::try_recv: [data, ch]
try_recv(ch) ==
    IF ch = <<>> THEN [data |-> None, ch |-> ch]
    ELSE [data |-> Some(Head(ch)), ch |-> Tail(ch)]

\* a plausible slip: `if let` for `while let`, one chunk is received
drain_once(data) == FALSE

\* process_output: `while let Ok(data) = self.output_rx.try_recv()`
drain_again(data) == data # None

\* where the engine goes when a drain ends: a query reads the screen,
\* process_output_with_timeout waits, or returns
AfterDrain(epc) ==
    CASE epc = "drain" -> "read_screen"
      [] epc = "tdrain" -> "wait"
      [] OTHER -> "idle"

ReaderInit ==
    /\ pipe = [read |-> 0, rpc |-> "read", buf |-> <<>>, output_rx |-> <<>>, sent |-> 0,
               fed |-> <<>>, nfed |-> 0, epc |-> "idle", snap |-> 0, queries |-> 0]
    /\ conc = Unset
    /\ sized = Unset
    /\ range = Unset
    /\ call = Unset
    /\ key_in = <<>>
    /\ key_out = Unset
    /\ screen = BlankScreen
    /\ shot = Unset
    /\ content = Unset
    /\ chan = Unset
    /\ drain = Unset
    /\ ProtoInit

\* the reader thread: reader.read returns Ok(n), the next n bytes
ReaderRead ==
    /\ pipe.rpc = "read"
    /\ \E n \in 0..MaxChunkLen :
        /\ pipe.read + n <= MaxBytes
        /\ IF reader_match(n) = "break"
           THEN pipe' = [pipe EXCEPT !.rpc = "done"]
           ELSE pipe' = [pipe EXCEPT !.rpc = "send", !.read = @ + n,
                                     !.buf = [i \in 1..n |-> pipe.read + i]]
    /\ UNCHANGED <<conc, sized, range, call, chan, drain, base_vars, proto_vars>>

\* the reader thread: reader.read returns an error
ReaderError ==
    /\ pipe.rpc = "read"
    /\ pipe' = [pipe EXCEPT !.rpc = "done"]
    /\ UNCHANGED <<conc, sized, range, call, chan, drain, base_vars, proto_vars>>

\* the reader thread: output_tx.send(buf[..n].to_vec()); the channel is
\* unbounded and its receiver lives as long as the terminal
ReaderSend ==
    /\ pipe.rpc = "send"
    /\ pipe' = [pipe EXCEPT !.rpc = "read", !.buf = <<>>,
                            !.output_rx = Append(@, pipe.buf), !.sent = @ + 1]
    /\ UNCHANGED <<conc, sized, range, call, chan, drain, base_vars, proto_vars>>

\* get_content, get_content_range, take_screenshot or cursor_position is
\* called: each begins with self.process_output()
QueryBegin ==
    /\ pipe.epc = "idle"
    /\ pipe.queries < MaxQueries
    /\ pipe' = [pipe EXCEPT !.epc = "drain", !.snap = pipe.sent, !.queries = @ + 1]
    /\ UNCHANGED <<conc, sized, range, call, chan, drain, base_vars, proto_vars>>

\* process_output_with_timeout is called
TimeoutBegin ==
    /\ pipe.epc = "idle"
    /\ pipe.queries < MaxQueries
    /\ pipe' = [pipe EXCEPT !.epc = "tdrain", !.snap = pipe.sent, !.queries = @ + 1]
    /\ UNCHANGED <<conc, sized, range, call, chan, drain, base_vars, proto_vars>>

\* process_output: one turn of the loop; a chunk received is fed to the
\* parser
TryRecv ==
    /\ pipe.epc \in {"drain", "tdrain", "drain2"}
    /\ \E r \in {try_recv(pipe.output_rx)} :
        pipe' = [pipe EXCEPT
                   !.output_rx = r.ch,
                   !.fed = IF r.data = None THEN @ ELSE @ \o r.data[1],
                   !.nfed = IF r.data = None THEN @ ELSE @ + 1,
                   !.epc = IF drain_again(r.data) THEN @ ELSE AfterDrain(@)]
    /\ UNCHANGED <<conc, sized, range, call, chan, drain, base_vars, proto_vars>>

\* process_output_with_timeout: recv_timeout returns a chunk, which is fed
\* to the parser, or times out on the empty channel
RecvTimeout ==
    /\ pipe.epc = "wait"
    /\ \E r \in {try_recv(pipe.output_rx)} :
        pipe' = [pipe EXCEPT
                   !.output_rx = r.ch,
                   !.fed = IF r.data = None THEN @ ELSE @ \o r.data[1],
                   !.nfed = IF r.data = None THEN @ ELSE @ + 1,
                   !.epc = IF r.data = None THEN "idle" ELSE "drain2"]
    /\ UNCHANGED <<conc, sized, range, call, chan, drain, base_vars, proto_vars>>

\* the query reads self.parser.screen() and returns
QueryRead ==
    /\ pipe.epc = "read_screen"
    /\ pipe' = [pipe EXCEPT !.epc = "idle"]
    /\ UNCHANGED <<conc, sized, range, call, chan, drain, base_vars, proto_vars>>

ReaderNext ==
    \/ ReaderRead
    \/ ReaderError
    \/ ReaderSend
    \/ QueryBegin
    \/ TimeoutBegin
    \/ TryRecv
    \/ RecvTimeout
    \/ QueryRead

SpecReader == ReaderInit /\ [][ReaderNext]_vars

\* C27: when a query reads the screen, every chunk that had been sent on
\* the output channel when the query was called has been fed to the parser.
C27_QuerySeesEarlierOutput ==
    pipe.epc = "read_screen" => pipe.nfed >= pipe.snap

\* a query reads the screen after two chunks were waiting when it was called
C27_Witness ==
    /\ pipe.epc = "read_screen"
    /\ pipe.snap >= 2
    /\ pipe.nfed = pipe.snap
    /\ pipe.queries = 1

RECURSIVE Flatten(_)
\* the chunks of a channel, concatenated
Flatten(chunks) == IF chunks = <<>> THEN <<>> ELSE Head(chunks) \o Flatten(Tail(chunks))

\* C28: under every interleaving of the reader thread with process_output
\* and process_output_with_timeout, the bytes fed to the parser, then those
\* waiting in the channel, then those the reader is about to send are
\* exactly the bytes read from the PTY master, in order: what the parser
\* got is a prefix of what was read, nothing lost, doubled or reordered;
\* no chunk in the channel is empty.
C28_FedIsPrefixOfRead ==
    /\ pipe.fed \o Flatten(pipe.output_rx) \o pipe.buf = [i \in 1..pipe.read |-> i]
    /\ \A i \in 1..Len(pipe.output_rx) : pipe.output_rx[i] # <<>>
    /\ pipe.rpc = "send" => pipe.buf # <<>>

\* the parser has been fed two chunks, the second by
\* process_output_with_timeout's wait, while a third waits in the channel
C28_Witness ==
    /\ pipe.nfed = 2
    /\ pipe.epc = "drain2"
    /\ pipe.output_rx # <<>>
    /\ Len(pipe.fed) = 2

(***************************************************************************)
(* SpecChannels: run_stdio_loop and the loop of main with the channels at  *)
(* their real capacity.  Requests are written by number: the client writes *)
(* MaxBurst requests, each with an id, so each one handled yields a        *)
(* response.  `chan` holds the transport's position and the number of      *)
(* lines read (the request in hand while it sends is the last one read),   *)
(* the request channel, the dispatcher's position and the response in      *)
(* hand, the response channel and the responses written.                   *)
(***************************************************************************)
ChannelsInit ==
    /\ chan = [tpc |-> "select", nread |-> 0, request_ch |-> <<>>,
               dpc |-> "recv", dresp |-> None, response_ch |-> <<>>, written |-> <<>>]
    /\ key_in = Unset
    /\ key_out = Unset
    /\ screen = Unset
    /\ shot = Unset
    /\ content = Unset
    /\ conc = Unset
    /\ sized = Unset
    /\ range = Unset
    /\ call = Unset
    /\ pipe = Unset
    /\ drain = Unset
    /\ ProtoInit

\* run_stdio_loop, the read branch: a line is read and parses as a request;
\* the loop goes on to request_tx.send(request).await inside the branch
ChannelsReadLine ==
    /\ chan.tpc = "select"
    /\ chan.nread < MaxBurst
    /\ chan' = [chan EXCEPT !.nread = @ + 1, !.tpc = "send"]
    /\ UNCHANGED <<conc, sized, range, call, pipe, drain, base_vars, proto_vars>>

\* run_stdio_loop: request_tx.send(request).await completes once the
\* request channel has room; until then the loop stays in the read branch
\* and response_rx is not polled
ChannelsTransportSend ==
    /\ chan.tpc = "send"
    /\ Len(chan.request_ch) < ChannelCapacity
    /\ chan' = [chan EXCEPT !.request_ch = mpsc_send(@, chan.nread), !.tpc = "select"]
    /\ UNCHANGED <<conc, sized, range, call, pipe, drain, base_vars, proto_vars>>

\* run_stdio_loop, the write branch: a response is received and written
ChannelsWrite ==
    /\ chan.tpc = "select"
    /\ chan.response_ch # <<>>
    /\ chan' = [chan EXCEPT !.written = Append(@, Head(chan.response_ch)),
                            !.response_ch = Tail(@)]
    /\ UNCHANGED <<conc, sized, range, call, pipe, drain, base_vars, proto_vars>>

\* run_stdio_loop: end of input ends the loop
ChannelsEof ==
    /\ chan.tpc = "select"
    /\ chan' = [chan EXCEPT !.tpc = "done"]
    /\ UNCHANGED <<conc, sized, range, call, pipe, drain, base_vars, proto_vars>>

\* main: a request is received and handled; its response is in hand
ChannelsHandle ==
    /\ chan.dpc = "recv"
    /\ chan.request_ch # <<>>
    /\ chan' = [chan EXCEPT !.dresp = Some(Head(chan.request_ch)),
                            !.request_ch = Tail(@), !.dpc = "send"]
    /\ UNCHANGED <<conc, sized, range, call, pipe, drain, base_vars, proto_vars>>

\* main: response_tx.send(response).await completes once the response
\* channel has room
ChannelsDispatcherSend ==
    /\ chan.dpc = "send"
    /\ chan.tpc # "done"
    /\ Len(chan.response_ch) < ChannelCapacity
    /\ chan' = [chan EXCEPT !.response_ch = mpsc_send(@, chan.dresp[1]),
                            !.dresp = None, !.dpc = "recv"]
    /\ UNCHANGED <<conc, sized, range, call, pipe, drain, base_vars, proto_vars>>

\* main: the send fails once the transport has dropped the receiver
ChannelsSendFails ==
    /\ chan.dpc = "send"
    /\ chan.tpc = "done"
    /\ chan' = [chan EXCEPT !.dresp = None, !.dpc = "done"]
    /\ UNCHANGED <<conc, sized, range, call, pipe, drain, base_vars, proto_vars>>

\* main: request_rx.recv() returns None once the channel is empty and the
\* transport has dropped the sender
ChannelsExit ==
    /\ chan.dpc = "recv"
    /\ chan.request_ch = <<>>
    /\ chan.tpc = "done"
    /\ chan' = [chan EXCEPT !.dpc = "done"]
    /\ UNCHANGED <<conc, sized, range, call, pipe, drain, base_vars, proto_vars>>

ChannelsNext ==
    \/ ChannelsReadLine
    \/ ChannelsTransportSend
    \/ ChannelsWrite
    \/ ChannelsEof
    \/ ChannelsHandle
    \/ ChannelsDispatcherSend
    \/ ChannelsSendFails
    \/ ChannelsExit

SpecChannels == ChannelsInit /\ [][ChannelsNext]_vars

\* C29: the transport and the dispatcher never deadlock on their channels:
\* no reachable state has the transport blocked sending a request into the
\* full request channel while the dispatcher is blocked sending a response
\* into the full response channel.
C29_NoChannelDeadlock ==
    ~ /\ chan.tpc = "send"
      /\ Len(chan.request_ch) = ChannelCapacity
      /\ chan.dpc = "send"
      /\ Len(chan.response_ch) = ChannelCapacity

\* C30: once both loops have ended, every line read that parsed as a request
\* with an id (of a method handle_request answers) has its response among
\* the lines written: end of input never discards the response to a request
\* already accepted.
C30_ResponsesWrittenBeforeExit ==
    (tpc = "done" /\ dpc = "done") =>
        \A seq \in 1..Len(read_log) :
            read_log[seq] = "request" =>
                \E i \in 1..Len(stdout) :
                    stdout[i].seq = seq /\ stdout[i].by = "dispatcher"

\* the methods whose arms of handle_request return None before the id is
\* looked at
NeverAnswered == {"initialized", "notifications/cancelled"}

\* the number of responses to line `seq` held by the dispatcher, the
\* response channel and the output stream
Held(seq) ==
    (IF dresp # None /\ dresp[1].seq = seq THEN 1 ELSE 0)
    + Cardinality({i \in 1..Len(response_ch) : response_ch[i].seq = seq})
    + Cardinality({i \in 1..Len(stdout) :
                      stdout[i].seq = seq /\ stdout[i].by = "dispatcher"})

\* C31 as stated: every message with an id that the dispatcher has handled
\* has a response with the same id, whatever its method.
C31_EveryIdAnswered ==
    (Handled /\ LastRequest.id # None) =>
        /\ LastResponse # None
        /\ LastResponse[1].id = LastRequest.id

\* C31, amended: a message with an id whose method is neither `initialized`
\* nor `notifications/cancelled` yields one response, with the same id: it
\* is the response the dispatcher goes on to send, and no line ever has two
\* responses in flight or written; a message of those two methods yields
\* none even with an id.
C31_AnsweredOnceWithSameId ==
    /\ (Handled /\ LastRequest.id # None /\ LastRequest.method \notin NeverAnswered) =>
          /\ LastResponse # None
          /\ LastResponse[1].id = LastRequest.id
          /\ (tpc # "done" => Held(last[1].seq) = 1)
    /\ (Handled /\ LastRequest.method \in NeverAnswered) =>
          /\ LastResponse = None
          /\ Held(last[1].seq) = 0
    /\ \A seq \in 1..nread : Held(seq) <= 1

\* a message with an id and an unknown method was handled and its response,
\* with the same id, was written
C31_Witness ==
    /\ Handled
    /\ LastRequest.id # None
    /\ LastRequest.method = "foo/bar"
    /\ LastResponse # None
    /\ LastResponse[1].id = LastRequest.id
    /\ \E i \in 1..Len(stdout) : stdout[i].seq = last[1].seq /\ stdout[i].by = "dispatcher"

\* C32: the parse-error response for a malformed line is never written
\* before the response to a request read earlier: no line written by the
\* dispatcher follows, on the output stream, a parse error of a later line.
C32_ParseErrorKeepsInputOrder ==
    \A i, j \in 1..Len(stdout) :
        (i < j /\ stdout[i].by = "transport" /\ stdout[j].by = "dispatcher") =>
            stdout[i].seq < stdout[j].seq

\* C33: a takeScreenshot result is one snapshot: its header and its body
\* show the same state of the screen, one of the states the screen was in
\* during the call, whatever the reader thread sends meanwhile.
C33_ScreenshotIsOneSnapshot ==
    (IsCallOf("takeScreenshot") /\ HasToolResult) =>
        \E i \in 1..Len(server.terminal.drains) :
            \E s \in {server.terminal.drains[i]} :
                LastToolResult.content[1].text =
                    screenshot_header(terminal_size(server.terminal)[1],
                                      terminal_size(server.terminal)[2],
                                      s.cursor[1], s.cursor[2])
                    \o (IF PlainAsked THEN contents(s.grid) ELSE screen_to_ansi(s.grid))

(***************************************************************************)
(* SpecDrain: process_output and process_output_with_timeout against a     *)
(* shell whose output does not end.  The chunks are left without content:  *)
(* drain = [rpc, output_rx, epc], the reader thread running or done, the   *)
(* channel as a sequence of chunks (the channel is unbounded; the model    *)
(* lets at most MaxQueued wait at once) and the engine's position.  The    *)
(* engine's thread keeps running: its steps are taken under weak fairness. *)
(***************************************************************************)
DrainInit ==
    /\ drain = [rpc |-> "run", output_rx |-> <<>>, epc |-> "idle"]
    /\ key_in = Unset
    /\ key_out = Unset
    /\ screen = Unset
    /\ shot = Unset
    /\ content = Unset
    /\ conc = Unset
    /\ sized = Unset
    /\ range = Unset
    /\ call = Unset
    /\ pipe = Unset
    /\ chan = Unset
    /\ ProtoInit

\* the reader thread: reader.read returns Ok(n), n > 0, and the chunk is
\* sent
DrainReaderSend ==
    /\ drain.rpc = "run"
    /\ Len(drain.output_rx) < MaxQueued
    /\ reader_match(1) = "send"
    /\ drain' = [drain EXCEPT !.output_rx = Append(@, 0)]
    /\ UNCHANGED <<conc, sized, range, call, pipe, chan, base_vars, proto_vars>>

\* the reader thread: reader.read returns Ok(0) or an error; the thread ends
DrainReaderExit ==
    /\ drain.rpc = "run"
    /\ reader_match(0) = "break"
    /\ drain' = [drain EXCEPT !.rpc = "done"]
    /\ UNCHANGED <<conc, sized, range, call, pipe, chan, base_vars, proto_vars>>

\* a query is called: it begins with self.process_output()
DrainQueryBegin ==
    /\ drain.epc = "idle"
    /\ drain' = [drain EXCEPT !.epc = "drain"]
    /\ UNCHANGED <<conc, sized, range, call, pipe, chan, base_vars, proto_vars>>

\* process_output_with_timeout is called
DrainTimeoutBegin ==
    /\ drain.epc = "idle"
    /\ drain' = [drain EXCEPT !.epc = "tdrain"]
    /\ UNCHANGED <<conc, sized, range, call, pipe, chan, base_vars, proto_vars>>

\* process_output: one turn of `while let Ok(data) = try_recv()`
DrainTryRecv ==
    /\ drain.epc \in {"drain", "tdrain", "drain2"}
    /\ \E r \in {try_recv(drain.output_rx)} :
        drain' = [drain EXCEPT !.output_rx = r.ch,
                               !.epc = IF drain_again(r.data) THEN @ ELSE AfterDrain(@)]
    /\ UNCHANGED <<conc, sized, range, call, pipe, chan, base_vars, proto_vars>>

\* process_output_with_timeout: recv_timeout returns a chunk, or returns
\* an error when the timeout passes or the reader has exited
DrainRecvTimeout ==
    /\ drain.epc = "wait"
    /\ \E r \in {try_recv(drain.output_rx)} :
        drain' = [drain EXCEPT !.output_rx = r.ch,
                               !.epc = IF r.data = None THEN "idle" ELSE "drain2"]
    /\ UNCHANGED <<conc, sized, range, call, pipe, chan, base_vars, proto_vars>>

\* the query reads self.parser.screen() and returns
DrainQueryRead ==
    /\ drain.epc = "read_screen"
    /\ drain' = [drain EXCEPT !.epc = "idle"]
    /\ UNCHANGED <<conc, sized, range, call, pipe, chan, base_vars, proto_vars>>

DrainNext ==
    \/ DrainReaderSend
    \/ DrainReaderExit
    \/ DrainQueryBegin
    \/ DrainTimeoutBegin
    \/ DrainTryRecv
    \/ DrainRecvTimeout
    \/ DrainQueryRead

SpecDrain ==
    /\ DrainInit
    /\ [][DrainNext]_vars
    /\ WF_vars(DrainTryRecv)
    /\ WF_vars(DrainRecvTimeout)
    /\ WF_vars(DrainQueryRead)

\* C34: the drain always returns: a query that has begun process_output
\* goes on to read the screen, even when the reader thread keeps sending
\* chunks while the drain is in progress.
C34_DrainAlwaysReturns ==
    (drain.epc = "drain") ~> (drain.epc = "read_screen")

\* C35: process_output_with_timeout first drains the available chunks (it
\* goes on to wait only from an empty channel); the wait ends with one more
\* chunk, which is taken and followed by a second drain, or with none, and
\* then the call returns having taken nothing since the first drain; and
\* the call always returns.
C35_TimeoutModeReturns ==
    /\ [][(drain.epc = "tdrain" /\ drain'.epc # "tdrain") =>
              (drain'.epc = "wait" /\ drain.output_rx = <<>>)]_vars
    /\ [][(drain.epc = "wait" /\ drain'.epc # "wait") =>
              \/ /\ drain'.epc = "drain2"
                 /\ drain.output_rx # <<>>
                 /\ drain'.output_rx = Tail(drain.output_rx)
              \/ /\ drain'.epc = "idle"
                 /\ drain.output_rx = <<>>
                 /\ drain'.output_rx = <<>>]_vars
    /\ [][(drain.epc = "drain2" /\ drain'.epc # "drain2") =>
              (drain'.epc = "idle" /\ drain.output_rx = <<>>)]_vars
    /\ (drain.epc = "tdrain") ~> (drain.epc = "idle")

\* the request being handled in a HandlingStep is a tools/call of one of
\* the writing tools
HandlingWrite ==
    /\ Handling.method = "tools/call"
    /\ Handling.params # None
    /\ CallToolParamsOk(Handling.params[1])
    /\ Handling.params[1].name.v \in {"type", "sendKey", "clear"}

\* C36: the grid and the cursor change only when output of the shell is
\* processed: a step that changes the screen has drained the channel and
\* leaves the screen of its last drain; type, sendKey and clear drain
\* nothing and leave the screen and the waiting output as they were, so
\* that get_content returns after them the text it returned before.
C36_OnlyOutputChangesScreen ==
    [][/\ server'.terminal.screen # server.terminal.screen =>
            /\ HandlingStep
            /\ server'.terminal.drains # <<>>
            /\ server'.terminal.screen =
                  server'.terminal.drains[Len(server'.terminal.drains)]
       /\ (HandlingStep /\ HandlingWrite) =>
            /\ server'.terminal.screen = server.terminal.screen
            /\ server'.terminal.output_rx = server.terminal.output_rx
            /\ server'.terminal.drains = <<>>
            /\ get_content(server'.terminal).text = get_content(server.terminal).text]_vars

\* clear was handled with success, its sequence written to the PTY, while
\* the screen shows what the shell printed earlier
C36_Witness ==
    /\ IsCallOf("clear")
    /\ HasToolResult
    /\ server.terminal.writes # <<>>
    /\ server.terminal.writes[1].data = ClearSequence
    /\ server.terminal.writes[1].accepted = Len(ClearSequence)
    /\ server.terminal.screen # BlankScreen
    /\ contents(server.terminal.screen.grid) # <<>>

(***************************************************************************)
(* SpecShot: take_screenshot on every grid of ScreenRows rows and ShotCols *)
(* columns over five cells: two of the default style (one empty), a bold   *)
(* one with a palette foreground, one with an RGB background and one with  *)
(* the other three flags, a bright foreground and a 256-colour background. *)
(***************************************************************************)
ShotCells ==
    SampleCells \cup
    { Cell(<<99>>, ColorIdx(9), ColorIdx(200), FALSE, TRUE, TRUE, TRUE) }

ShotInit ==
    /\ screen \in [grid : [1..ScreenRows -> [1..ShotCols -> ShotCells]],
                   cursor : {<<0, 0>>}]
    /\ shot = Unset
    /\ content = Unset
    /\ key_in = <<>>
    /\ key_out = Unset
    /\ AuxInit
    /\ ProtoInit

SpecShot == ShotInit /\ [][ScreenNext]_vars

\* the style of a cell: everything but its content
StyleOf(cell) ==
    <<cell.fgcolor, cell.bgcolor, cell.bold, cell.italic, cell.underline, cell.inverse>>

\* what C37 says of one row: before a cell, the reset and the cell's codes
\* exactly when the cell is the first of the row or differs in style from
\* the cell before it; one character per cell; a reset at the end
StatedRow(cells) ==
    Flatten([col \in 1..Len(cells) |->
                (IF col = 1 \/ StyleOf(cells[col]) # StyleOf(cells[col - 1])
                 THEN SgrReset \o cell_to_ansi(cells[col]) ELSE <<>>)
                \o << IF cells[col].contents = <<>> THEN 32 ELSE cells[col].contents[1] >>])
    \o SgrReset

\* C37: the screenshot of a grid is its rows as C37 states them (the reset
\* and the codes before a cell if and only if it is the first of its row
\* or its style differs from that of the cell before it, one character per
\* cell, a space for an empty cell, a reset at the end of the row), joined
\* by '\n' with none after the last row.
C37_ScreenshotLayout ==
    shot # Unset =>
        shot = join([r \in 1..Len(screen.grid) |-> StatedRow(screen.grid[r])], <<10>>)

\* the screenshot was taken of a grid whose first row has a style, another
\* style twice and whose second row begins with an empty cell
C37_Witness ==
    /\ shot # Unset
    /\ StyleOf(screen.grid[1][1]) # StyleOf(screen.grid[1][2])
    /\ StyleOf(screen.grid[1][2]) = StyleOf(screen.grid[1][3])
    /\ screen.grid[1][2].bold
    /\ screen.grid[2][1] = EmptyCell

RECURSIVE ParseDec(_, _)
\* the number written by the digits of `digits`, after the value acc
ParseDec(digits, acc) ==
    IF digits = <<>> THEN acc ELSE ParseDec(Tail(digits), 10 * acc + (Head(digits) - 48))

RECURSIVE SgrParams(_, _)
\* the parameters of an SGR sequence: the numbers between the ';' of
\* `body`, cur being the digits read of the current one
SgrParams(body, cur) ==
    IF body = <<>> THEN <<ParseDec(cur, 0)>>
    ELSE IF Head(body) = 59 THEN <<ParseDec(cur, 0)>> \o SgrParams(Tail(body), <<>>)
    ELSE SgrParams(Tail(body), Append(cur, Head(body)))

\* the style a terminal starts with and returns to on SGR 0
DefaultStyle == StyleOf(EmptyCell)

RECURSIVE ApplySgr(_, _)
\* the style after the SGR parameters ps are applied to style st, as a
\* terminal reads them (ECMA-48 and the xterm colour extensions)
ApplySgr(st, ps) ==
    IF ps = <<>> THEN st
    ELSE LET p == Head(ps) IN
         IF p = 0 THEN ApplySgr(DefaultStyle, Tail(ps))
         ELSE IF p = 1 THEN ApplySgr([st EXCEPT ![3] = TRUE], Tail(ps))
         ELSE IF p = 3 THEN ApplySgr([st EXCEPT ![4] = TRUE], Tail(ps))
         ELSE IF p = 4 THEN ApplySgr([st EXCEPT ![5] = TRUE], Tail(ps))
         ELSE IF p = 7 THEN ApplySgr([st EXCEPT ![6] = TRUE], Tail(ps))
         ELSE IF p \in 30..37 THEN ApplySgr([st EXCEPT ![1] = ColorIdx(p - 30)], Tail(ps))
         ELSE IF p \in 40..47 THEN ApplySgr([st EXCEPT ![2] = ColorIdx(p - 40)], Tail(ps))
         ELSE IF p \in 90..97 THEN ApplySgr([st EXCEPT ![1] = ColorIdx(p - 90 + 8)], Tail(ps))
         ELSE IF p \in 100..107 THEN ApplySgr([st EXCEPT ![2] = ColorIdx(p - 100 + 8)], Tail(ps))
         ELSE IF p \in {38, 48} /\ Len(ps) >= 3 /\ ps[2] = 5
         THEN ApplySgr([st EXCEPT ![IF p = 38 THEN 1 ELSE 2] = ColorIdx(ps[3])],
                       SubSeq(ps, 4, Len(ps)))
         ELSE IF p \in {38, 48} /\ Len(ps) >= 5 /\ ps[2] = 2
         THEN ApplySgr([st EXCEPT ![IF p = 38 THEN 1 ELSE 2] = ColorRgb(ps[3], ps[4], ps[5])],
                       SubSeq(ps, 6, Len(ps)))
         ELSE ApplySgr(st, Tail(ps))

RECURSIVE SgrEnd(_, _)
\* the position of the final 'm' of the sequence whose body begins at j
SgrEnd(text, j) ==
    IF j > Len(text) \/ text[j] = 109 THEN j ELSE SgrEnd(text, j + 1)

RECURSIVE ShownStyles(_, _, _)
\* the text read as an SGR stream from position i on in style st: the rows
\* of styles in effect when each character is shown; '\n' begins a row
ShownStyles(text, i, st) ==
    IF i > Len(text) THEN << <<>> >>
    ELSE IF text[i] = ESC /\ i + 1 <= Len(text) /\ text[i + 1] = 91
    THEN ShownStyles(text, SgrEnd(text, i + 2) + 1,
                     ApplySgr(st, SgrParams(SubSeq(text, i + 2, SgrEnd(text, i + 2) - 1), <<>>)))
    ELSE LET rest == ShownStyles(text, i + 1, st) IN
         IF text[i] = 10 THEN << <<>> >> \o rest
         ELSE << <<st>> \o Head(rest) >> \o Tail(rest)

\* C38: read as an SGR stream, the screenshot shows every cell in the
\* cell's own style: the style in effect when the character of a cell is
\* emitted is the style of that cell in the grid, row by row.
C38_ScreenshotRoundTrips ==
    shot # Unset =>
        ShownStyles(shot, 1, DefaultStyle) =
            [r \in 1..Len(screen.grid) |->
                [c \in 1..Len(screen.grid[r]) |-> StyleOf(screen.grid[r][c])]]

\* the screenshot was taken of a grid whose first row alternates between a
\* styled cell and the default style, and whose second row repeats a style
C38_Witness ==
    /\ shot # Unset
    /\ StyleOf(screen.grid[1][1]) # DefaultStyle
    /\ StyleOf(screen.grid[1][2]) = DefaultStyle
    /\ StyleOf(screen.grid[1][3]) = StyleOf(screen.grid[1][1])
    /\ StyleOf(screen.grid[2][1]) = StyleOf(screen.grid[2][2])
    /\ screen.grid[2][1].bgcolor.t = "Rgb"

(***************************************************************************)
(* SpecColors: take_screenshot on the one-cell screens whose cell 'a' has  *)
(* every pair of colours out of the default colour, the 256 palette        *)
(* indices and three RGB colours; the screenshot of such a screen is a     *)
(* reset, cell_to_ansi of the cell, the character and a reset.             *)
(***************************************************************************)
ColorsDrawn ==
    {ColorDefault} \cup {ColorIdx(idx) : idx \in 0..U8Max}
    \cup {ColorRgb(0, 0, 0), ColorRgb(1, 2, 3), ColorRgb(U8Max, 128, 7)}

ColorsInit ==
    /\ screen \in { [grid |-> << <<Cell(<<97>>, fg, bg, FALSE, FALSE, FALSE, FALSE)>> >>,
                     cursor |-> <<0, 0>>] : fg \in ColorsDrawn, bg \in ColorsDrawn }
    /\ shot = Unset
    /\ content = Unset
    /\ key_in = <<>>
    /\ key_out = Unset
    /\ AuxInit
    /\ ProtoInit

SpecColors == ColorsInit /\ [][ScreenNext]_vars

\* the code C39 states for a colour, in unbounded arithmetic
StatedColor(color, base, bright, ext) ==
    IF color.t = "Default" THEN <<>>
    ELSE IF color.t = "Idx" /\ color.v[1] < 8 THEN <<Dec(base + color.v[1])>>
    ELSE IF color.t = "Idx" /\ color.v[1] < 16 THEN <<Dec(bright + (color.v[1] - 8))>>
    ELSE IF color.t = "Idx" THEN <<ext \o <<59, 53, 59>> \o Dec(color.v[1])>>
    ELSE <<ext \o <<59, 50, 59>> \o Dec(color.v[1]) \o <<59>> \o Dec(color.v[2])
               \o <<59>> \o Dec(color.v[3])>>

\* the 8-bit sums the code computes for a colour stay within a u8
NoOverflow(color, base, bright) ==
    color.t = "Idx" =>
        /\ color.v[1] < 8 => base + color.v[1] <= U8Max
        /\ (color.v[1] >= 8 /\ color.v[1] < 16) =>
              (bright + color.v[1] <= U8Max /\ bright + color.v[1] - 8 >= 0)

\* the one cell of the screen
TheCell == screen.grid[1][1]

\* C39: cell_to_ansi encodes a foreground index as 30+idx below 8, as
\* 90+(idx-8) below 16 and as "38;5;idx" from 16 on, a background index as
\* 40+idx, 100+(idx-8) and "48;5;idx", an RGB colour as "38;2;r;g;b" or
\* "48;2;r;g;b", and none of its 8-bit sums overflows.
C39_ColorCodes ==
    shot # Unset =>
        LET codes == StatedColor(TheCell.fgcolor, 30, 90, <<51, 56>>)
                     \o StatedColor(TheCell.bgcolor, 40, 100, <<52, 56>>)
            sgr == IF codes = <<>> THEN <<>>
                   ELSE <<ESC, 91>> \o join(codes, <<59>>) \o <<109>>
        IN  /\ cell_to_ansi(TheCell) = sgr
            /\ shot = SgrReset \o sgr \o <<97>> \o SgrReset
            /\ NoOverflow(TheCell.fgcolor, 30, 90)
            /\ NoOverflow(TheCell.bgcolor, 40, 100)

\* the screenshot was taken of a cell with the brightest palette foreground
\* of the second range and an RGB background: "\x1b[97;48;2;255;128;7m"
C39_Witness ==
    /\ shot # Unset
    /\ TheCell.fgcolor = ColorIdx(15)
    /\ TheCell.bgcolor = ColorRgb(U8Max, 128, 7)
    /\ cell_to_ansi(TheCell) =
          <<ESC, 91, 57, 55, 59, 52, 56, 59, 50, 59, 50, 53, 53, 59, 49, 50, 56, 59, 55, 109>>

=============================================================================
